---------------------------- MODULE Spec2Model ----------------------------
(***************************************************************************)
(* A model of the Terraform reconciler of tf-controller:                   *)
(*   src/controllers/tf_controller.go     the Reconcile loop, dependency   *)
(*                                        check, source watch mapping      *)
(*   src/api/v1alpha1/terraform_types.go  the status transition functions  *)
(*                                                                         *)
(* Strings of the program that the code takes apart (revisions, plan ids,  *)
(* the approvePlan field) are sequences of one-character strings; names,   *)
(* reasons and condition types, which the code only compares, are TLA+     *)
(* strings.  Messages are sequences whose literal parts are kept as        *)
(* chunks.                                                                 *)
(***************************************************************************)
EXTENDS Integers, Sequences, FiniteSets, TLC

\* ------------------------------------------------------------------ bounds
\* Number of concurrent workers beyond the first (MaxConcurrentReconciles - 1).
ExtraWorkers == 1
\* How many times the environment (users, source controller, clock of the
\* certificate authority) may act in one behaviour.
MaxEnvSteps == 1
MaxFaults == 1
\* How many attempts may be started in one behaviour.
MaxAttempts == 2

\* ------------------------------------------------- constants of the program
\* terraform_types.go:419-427
\* Finalizers are sequences of chunks: <<literal>> or <<prefix, name>>.
TerraformFinalizer == <<"finalizers.tf.contrib.fluxcd.io">>
MaxConditionMessageLength == 20000
ApprovePlanAutoValue == <<"a", "u", "t", "o">>
\* terraform_types.go:467-469
TFDependencyOfPrefix == "tf.dependency.of."
\* terraform_types.go:430-451
ArtifactFailedReason == "ArtifactFailed"
DeletionBlockedByDependants == "DeletionBlockedByDependantsReason"
DependencyNotReadyReason == "DependencyNotReady"
DriftDetectedReason == "DriftDetected"
TFExecPlanFailedReason == "TFExecPlanFailed"
TFExecApplyFailedReason == "TFExecApplyFailed"
TFExecLockHeldReason == "LockHeld"
TFExecForceUnlockReason == "ForceUnlock"
ConditionTypeStateLocked == "StateLocked"
TFExecApplySucceedReason == "TerraformAppliedSucceed"
\* github.com/fluxcd/pkg/apis/meta, used at terraform_types.go:474, 489, 645
ReadyCondition == "Ready"
ProgressingReason == "Progressing"
\* terraform_types.go:454-460
ConditionTypeApply == "Apply"
ConditionTypePlan == "Plan"
ConditionTypeOutput == "Output"
\* metav1.ConditionStatus
ConditionTrue == "True"
ConditionFalse == "False"
ConditionUnknown == "Unknown"
\* sourcev1 kinds, tf_controller.go:594, 604, 614
GitRepositoryKind == "GitRepository"
BucketKind == "Bucket"
OCIRepositoryKind == "OCIRepository"

\* The empty Go string, for the strings kept as character sequences.
EmptyString == <<>>
\* A pointer (*metav1.Time, *Artifact, *metav1.Duration, *Condition) is the
\* empty sequence when nil and a one-element sequence otherwise.
Nil == <<>>
Ptr(v) == <<v>>
Deref(p) == p[1]

\* ------------------------------------------------------------ Go's strings
\* strings.Index(s, "/"): the first position of c in s (1-based), 0 if absent.
RECURSIVE IndexFrom(_, _, _)
IndexFrom(s, c, i) ==
    IF i > Len(s) THEN 0
    ELSE IF s[i] = c THEN i
    ELSE IndexFrom(s, c, i + 1)

IndexOf(s, c) == IndexFrom(s, c, 1)

\* strings.Replace(s, "/", "-", 1)
ReplaceFirst(s, old, new) ==
    LET i == IndexOf(s, old)
    IN  IF i = 0 THEN s ELSE [s EXCEPT ![i] = new]

\* strings.SplitN(s, "/", 2)
SplitN2(s, sep) ==
    LET i == IndexOf(s, sep)
    IN  IF i = 0 THEN <<s>>
        ELSE <<SubSeq(s, 1, i - 1), SubSeq(s, i + 1, Len(s))>>

\* terraform_types.go:817-823
trimString(str, limit) ==
    IF Len(str) <= limit THEN str
    ELSE SubSeq(str, 1, limit) \o <<".", ".", ".">>

\* ------------------------------------------------------------- conditions
\* apimeta.FindStatusCondition: the first condition of the type, or Nil.
RECURSIVE FindFrom(_, _, _)
FindFrom(conditions, type, i) ==
    IF i > Len(conditions) THEN 0
    ELSE IF conditions[i].type = type THEN i
    ELSE FindFrom(conditions, type, i + 1)

FindStatusCondition(conditions, type) ==
    LET i == FindFrom(conditions, type, 1)
    IN  IF i = 0 THEN Nil ELSE Ptr(conditions[i])

\* apimeta.IsStatusConditionTrue
IsStatusConditionTrue(conditions, type) ==
    LET c == FindStatusCondition(conditions, type)
    IN  c # Nil /\ Deref(c).status = ConditionTrue

\* An upsert that stamps the condition with t whatever it replaces.
SetStatusConditionStamped(conditions, new, t) ==
    LET i == FindFrom(conditions, new.type, 1)
    IN  IF i = 0
        THEN Append(conditions, [new EXCEPT !.lastTransitionTime = t])
        ELSE [conditions EXCEPT ![i] = [new EXCEPT !.lastTransitionTime = t]]

\* apimeta.SetStatusCondition, called with the wall clock reading t: a new
\* type is appended; an existing one gets the new status (and the transition
\* time t when the status changed), reason and message.
SetStatusCondition(conditions, new, t) ==
    LET i == FindFrom(conditions, new.type, 1)
    IN  IF i = 0
        THEN Append(conditions, [new EXCEPT !.lastTransitionTime = t])
        ELSE [conditions EXCEPT ![i] =
                [type |-> new.type,
                 status |-> new.status,
                 reason |-> new.reason,
                 message |-> new.message,
                 lastTransitionTime |->
                    IF conditions[i].status # new.status
                    THEN t ELSE conditions[i].lastTransitionTime]]

Condition(type, status, reason, message) ==
    [type |-> type, status |-> status, reason |-> reason,
     message |-> message, lastTransitionTime |-> 0]


\* ------------------------------------------------- the Terraform resource
\* TerraformStatus of a resource nothing has reconciled yet
\* (terraform_types.go:273-318).
EmptyStatus ==
    [conditions |-> <<>>,
     observedGeneration |-> 0,
     lastAppliedRevision |-> EmptyString,
     lastAttemptedRevision |-> EmptyString,
     lastPlannedRevision |-> EmptyString,
     lastDriftDetectedAt |-> Nil,
     lastAppliedByDriftDetectionAt |-> Nil,
     plan |-> [lastApplied |-> EmptyString, pending |-> EmptyString,
               isDestroyPlan |-> FALSE, isDriftDetectionPlan |-> FALSE],
     inventory |-> <<>>,
     lock |-> [lastApplied |-> EmptyString, pending |-> EmptyString]]

\* Drift counted from the instant of the transition on.
HasDriftNotStrict(in) ==
    \E i \in 1..Len(in.status.conditions) :
        LET condition == in.status.conditions[i]
        IN  /\ condition.type = ConditionTypeApply
            /\ condition.status = ConditionTrue
            /\ in.status.lastDriftDetectedAt # Nil
            /\ Deref(in.status.lastDriftDetectedAt) >= condition.lastTransitionTime

\* terraform_types.go:749-759.  Time.After is strict.
HasDrift(in) ==
    \E i \in 1..Len(in.status.conditions) :
        LET condition == in.status.conditions[i]
        IN  /\ condition.type = ConditionTypeApply
            /\ condition.status = ConditionTrue
            /\ in.status.lastDriftDetectedAt # Nil
            /\ Deref(in.status.lastDriftDetectedAt) > condition.lastTransitionTime

\* The retry interval taken to be the interval.
GetInterval(in) == in.spec.interval

\* terraform_types.go:767-772
GetRetryInterval(in) ==
    IF in.spec.retryInterval # Nil
    THEN Deref(in.spec.retryInterval)
    ELSE in.spec.interval

\* terraform_types.go:472-483
SetTerraformReadiness(terraform, status, reason, message, revision, t) ==
    [terraform EXCEPT
        !.status.conditions =
            SetStatusCondition(@,
                Condition(ReadyCondition, status, reason,
                          trimString(message, MaxConditionMessageLength)), t),
        !.status.observedGeneration = terraform.generation,
        !.status.lastAttemptedRevision = revision]

\* terraform_types.go:485-497
TerraformApplying(terraform, revision, message, t) ==
    [terraform EXCEPT
        !.status.conditions =
            SetStatusCondition(@,
                Condition(ConditionTypeApply, ConditionUnknown, ProgressingReason,
                          trimString(message, MaxConditionMessageLength)), t),
        !.status.lastAttemptedRevision =
            IF revision # EmptyString THEN revision ELSE @]

\* terraform_types.go:511-522
TerraformOutputsWritten(terraform, revision, message, t) ==
    LET withOutput ==
            [terraform EXCEPT
                !.status.conditions =
                    SetStatusCondition(@,
                        Condition(ConditionTypeOutput, ConditionTrue,
                                  "TerraformOutputsWritten",
                                  trimString(message, MaxConditionMessageLength)), t)]
    IN  SetTerraformReadiness(withOutput, ConditionTrue, "TerraformOutputsWritten",
                              message \o <<": ">> \o revision, revision, t)

\* An apply that records the entries it is given, even none.
TerraformAppliedAnyEntries(terraform, revision, message, isDestroyApply, entries, t) ==
    SetTerraformReadiness(
        [terraform EXCEPT
            !.status.conditions =
                SetStatusCondition(@,
                    Condition(ConditionTypeApply, ConditionTrue,
                              TFExecApplySucceedReason,
                              trimString(message, MaxConditionMessageLength)), t),
            !.status.lastAppliedByDriftDetectionAt =
                IF terraform.status.plan.isDriftDetectionPlan THEN Ptr(t) ELSE @,
            !.status.plan =
                [lastApplied |-> terraform.status.plan.pending,
                 pending |-> EmptyString,
                 isDestroyPlan |-> isDestroyApply,
                 isDriftDetectionPlan |-> FALSE],
            !.status.lastAppliedRevision =
                IF revision # EmptyString THEN revision ELSE @,
            !.status.inventory = entries],
        ConditionUnknown, TFExecApplySucceedReason,
        message \o <<": ">> \o revision, revision, t)

\* terraform_types.go:524-552
TerraformApplied(terraform, revision, message, isDestroyApply, entries, t) ==
    LET withApply ==
            [terraform EXCEPT
                !.status.conditions =
                    SetStatusCondition(@,
                        Condition(ConditionTypeApply, ConditionTrue,
                                  TFExecApplySucceedReason,
                                  trimString(message, MaxConditionMessageLength)), t),
                !.status.lastAppliedByDriftDetectionAt =
                    IF terraform.status.plan.isDriftDetectionPlan THEN Ptr(t) ELSE @,
                !.status.plan =
                    [lastApplied |-> terraform.status.plan.pending,
                     pending |-> EmptyString,
                     isDestroyPlan |-> isDestroyApply,
                     isDriftDetectionPlan |-> FALSE],
                !.status.lastAppliedRevision =
                    IF revision # EmptyString THEN revision ELSE @,
                !.status.inventory =
                    IF Len(entries) > 0 THEN entries ELSE @]
    IN  SetTerraformReadiness(withApply, ConditionUnknown, TFExecApplySucceedReason,
                              message \o <<": ">> \o revision, revision, t)

\* An approval message that shows the plan id uncut.
GetPlanIdAndApproveMessageUncut(revision, message) ==
    LET planId == <<"p", "l", "a", "n", "-">> \o ReplaceFirst(revision, "/", "-")
    IN  <<planId,
          message \o <<": set approvePlan: \"">> \o planId
                \o <<"\" to approve this plan.">>,
          planId>>

\* terraform_types.go:554-566.  The pair <<planId, approveMessage>>; the
\* third component is the short plan id the message embeds.
GetPlanIdAndApproveMessage(revision, message) ==
    LET planRev == ReplaceFirst(revision, "/", "-")
        planId == <<"p", "l", "a", "n", "-">> \o planRev
        parts == SplitN2(revision, "/")
        shortPlanId ==
            IF Len(parts) = 2 /\ Len(parts[2]) >= 10
            THEN <<"p", "l", "a", "n", "-">> \o parts[1] \o <<"-">>
                    \o SubSeq(parts[2], 1, 10)
            ELSE planId
        approveMessage ==
            message \o <<": set approvePlan: \"">> \o shortPlanId
                \o <<"\" to approve this plan.">>
    IN  <<planId, approveMessage, shortPlanId>>

\* terraform_types.go:589-616
TerraformPlannedWithChanges(terraform, revision, forceOrAutoApply, message, t) ==
    LET pm == GetPlanIdAndApproveMessage(revision, message)
        planId == pm[1]
        approveMessage == pm[2]
        withPlan ==
            [terraform EXCEPT
                !.status.conditions =
                    SetStatusCondition(@,
                        Condition(ConditionTypePlan, ConditionTrue,
                                  "TerraformPlannedWithChanges",
                                  trimString(message, MaxConditionMessageLength)), t)]
        planned ==
            [withPlan EXCEPT
                !.status.plan =
                    [lastApplied |-> terraform.status.plan.lastApplied,
                     pending |-> planId,
                     isDestroyPlan |-> terraform.spec.destroy,
                     isDriftDetectionPlan |-> HasDrift(withPlan)],
                !.status.lastAttemptedRevision =
                    IF revision # EmptyString THEN revision ELSE @,
                !.status.lastPlannedRevision =
                    IF revision # EmptyString THEN revision ELSE @]
    IN  IF forceOrAutoApply
        THEN SetTerraformReadiness(planned, ConditionUnknown,
                "TerraformPlannedWithChanges", message, revision, t)
        ELSE SetTerraformReadiness(planned, ConditionUnknown,
                "TerraformPlannedWithChanges", approveMessage, revision, t)

\* A plan without changes that leaves the pending plan in place.
TerraformPlannedNoChangesKeepingPending(terraform, revision, message, t) ==
    SetTerraformReadiness(
        [terraform EXCEPT
            !.status.conditions =
                SetStatusCondition(@,
                    Condition(ConditionTypePlan, ConditionFalse,
                              "TerraformPlannedNoChanges",
                              trimString(message, MaxConditionMessageLength)), t),
            !.status.lastAttemptedRevision =
                IF revision # EmptyString THEN revision ELSE @,
            !.status.lastPlannedRevision =
                IF revision # EmptyString THEN revision ELSE @],
        ConditionTrue, "TerraformPlannedNoChanges",
        message \o <<": ">> \o revision, revision, t)

\* terraform_types.go:618-638
TerraformPlannedNoChanges(terraform, revision, message, t) ==
    LET planned ==
            [terraform EXCEPT
                !.status.conditions =
                    SetStatusCondition(@,
                        Condition(ConditionTypePlan, ConditionFalse,
                                  "TerraformPlannedNoChanges",
                                  trimString(message, MaxConditionMessageLength)), t),
                !.status.plan =
                    [lastApplied |-> terraform.status.plan.lastApplied,
                     pending |-> EmptyString,
                     isDestroyPlan |-> terraform.spec.destroy,
                     isDriftDetectionPlan |-> FALSE],
                !.status.lastAttemptedRevision =
                    IF revision # EmptyString THEN revision ELSE @,
                !.status.lastPlannedRevision =
                    IF revision # EmptyString THEN revision ELSE @]
    IN  SetTerraformReadiness(planned, ConditionTrue, "TerraformPlannedNoChanges",
                              message \o <<": ">> \o revision, revision, t)

\* terraform_types.go:568-587
TerraformPostPlanningWebhookFailed(terraform, revision, message, t) ==
    [terraform EXCEPT
        !.status.conditions =
            SetStatusCondition(@,
                Condition(ConditionTypePlan, ConditionFalse,
                          "PostPlanningWebhookFailed",
                          trimString(message, MaxConditionMessageLength)), t),
        !.status.plan =
            [lastApplied |-> terraform.status.plan.lastApplied,
             pending |-> EmptyString,
             isDestroyPlan |-> terraform.spec.destroy,
             isDriftDetectionPlan |-> FALSE],
        !.status.lastAttemptedRevision =
            IF revision # EmptyString THEN revision ELSE @,
        !.status.lastPlannedRevision =
            IF revision # EmptyString THEN revision ELSE @]

\* Progress that also forces the approval of the object the attempt holds.
TerraformProgressingForced(terraform, message, t) ==
    [terraform EXCEPT
        !.spec.force = TRUE,
        !.status.conditions =
            SetStatusCondition(@,
                Condition(ReadyCondition, ConditionUnknown, ProgressingReason,
                          trimString(message, MaxConditionMessageLength)), t)]

\* terraform_types.go:642-651
TerraformProgressing(terraform, message, t) ==
    [terraform EXCEPT
        !.status.conditions =
            SetStatusCondition(@,
                Condition(ReadyCondition, ConditionUnknown, ProgressingReason,
                          trimString(message, MaxConditionMessageLength)), t)]

\* A not-ready outcome that leaves the revision last attempted when it is
\* given none.
TerraformNotReadyKeepingRevision(terraform, revision, reason, message, t) ==
    [SetTerraformReadiness(terraform, ConditionFalse, reason,
        trimString(message, MaxConditionMessageLength), revision, t)
     EXCEPT !.status.lastAttemptedRevision =
                IF revision # EmptyString THEN revision
                ELSE terraform.status.lastAttemptedRevision]

\* terraform_types.go:654-660
TerraformNotReady(terraform, revision, reason, message, t) ==
    LET notReady ==
            SetTerraformReadiness(terraform, ConditionFalse, reason,
                trimString(message, MaxConditionMessageLength), revision, t)
    IN  [notReady EXCEPT
            !.status.lastAttemptedRevision =
                IF revision # EmptyString THEN revision ELSE @]

\* A failed apply that keeps the plan pending.
TerraformAppliedFailKeepingPlan(terraform, revision, reason, message, t) ==
    TerraformNotReady(
        [terraform EXCEPT
            !.status.conditions =
                SetStatusCondition(@,
                    Condition(ConditionTypeApply, ConditionFalse,
                              "TerraformAppliedFail",
                              trimString(message, MaxConditionMessageLength)), t)],
        revision, reason, message, t)

\* terraform_types.go:662-673
TerraformAppliedFailResetPlanAndNotReady(terraform, revision, reason, message, t) ==
    LET withApply ==
            [terraform EXCEPT
                !.status.conditions =
                    SetStatusCondition(@,
                        Condition(ConditionTypeApply, ConditionFalse,
                                  "TerraformAppliedFail",
                                  trimString(message, MaxConditionMessageLength)), t)]
        notReady == TerraformNotReady(withApply, revision, reason, message, t)
    IN  [notReady EXCEPT !.status.plan.pending = EmptyString]

\* A forced unlock that forgets the lock it releases.
TerraformForceUnlockForgetting(terraform, message, t) ==
    [terraform EXCEPT
        !.status.conditions =
            SetStatusCondition(@,
                Condition(ConditionTypeStateLocked, ConditionFalse,
                          TFExecForceUnlockReason,
                          trimString(message, MaxConditionMessageLength)), t),
        !.status.lock.pending = EmptyString]

\* terraform_types.go:709-726
TerraformForceUnlock(terraform, message, t) ==
    [terraform EXCEPT
        !.status.conditions =
            SetStatusCondition(@,
                Condition(ConditionTypeStateLocked, ConditionFalse,
                          TFExecForceUnlockReason,
                          trimString(message, MaxConditionMessageLength)), t),
        !.status.lock =
            [lastApplied |->
                IF @.pending # EmptyString /\ @.lastApplied # @.pending
                THEN @.pending ELSE @.lastApplied,
             pending |-> EmptyString]]

\* terraform_types.go:728-746
TerraformStateLocked(terraform, lockID, message, t) ==
    LET locked ==
            SetTerraformReadiness(
                [terraform EXCEPT
                    !.status.conditions =
                        SetStatusCondition(@,
                            Condition(ConditionTypeStateLocked, ConditionTrue,
                                TFExecLockHeldReason,
                                trimString(message, MaxConditionMessageLength)),
                            t)],
                ConditionFalse, TFExecLockHeldReason,
                trimString(message, MaxConditionMessageLength), EmptyString, t)
    IN  [locked EXCEPT
            !.status.lock =
                [lastApplied |->
                    IF @.pending # EmptyString /\ @.lastApplied # @.pending
                    THEN @.pending ELSE @.lastApplied,
                 pending |-> lockID]]

\* terraform_types.go:675-680
TerraformDriftDetected(terraform, revision, reason, message, t) ==
    SetTerraformReadiness(
        [terraform EXCEPT !.status.lastDriftDetectedAt = Ptr(t)],
        ConditionFalse, reason,
        trimString(message, MaxConditionMessageLength), revision, t)

\* terraform_types.go:682-685
TerraformNoDrift(terraform, revision, reason, message, t) ==
    SetTerraformReadiness(terraform, ConditionTrue, reason,
                          message \o <<": ">> \o revision, revision, t)


\* ---------------------------------------------------------------- the state
VARIABLES
    store,      \* the cluster's Terraform objects: name -> Nil or Ptr(object)
    sources,    \* the source objects: <<kind, namespace, name>> -> Nil or Ptr(source)
    secrets,    \* the names of the Secrets that exist
    queue,      \* the controller's work queue: [items, dirty, processing]
    wk,         \* per worker: the position in Reconcile and its local variables
    ca,         \* the certificate rotator: [ready, valid]
    now,        \* the wall clock
    watch,      \* what the last source watch event was mapped to
    attempts,   \* attempts started so far
    envSteps,   \* steps of the environment and faults of its API so far
    fetch,      \* a download on its own: [artifact, resp, result]
    insecureLocalRunner, \* the controller runs with INSECURE_LOCAL_RUNNER=1
    steps,      \* the transitions on their own: how many were applied
    pod,        \* the runner pod of a cleanup on its own, and the poll for it
    locks        \* the lock calls on their own: the ids that were pending

\* No poll for a runner pod is under way.
NoPoll == [exists |-> TRUE, elapsed |-> 0, calls |-> 0, deletes |-> 0,
           got |-> "", err |-> ""]

vars == <<store, sources, secrets, queue, wk, ca, now, watch, attempts, envSteps,
          fetch, insecureLocalRunner, steps, pod, locks>>

Workers == 1..(1 + ExtraWorkers)
\* The Terraform objects of the model, all in namespace Namespace.
Objs == {"d", "x", "y"}
Namespace == "ns1"
\* The one source the objects refer to, and its successive revisions.
SourceKey == <<GitRepositoryKind, Namespace, "src">>
Rev1 == <<"m", "/", "a", "b", "c", "d", "e", "f", "a", "b", "c", "d", "1">>
Rev2 == <<"m", "/", "a", "b", "c", "d", "e", "f", "a", "b", "c", "d", "2">>

\* ------------------------------------------------------- the object store
\* metav1.ObjectMeta and the parts of TerraformSpec Reconcile reads
\* (terraform_types.go:79-227, 338-345).
NewTerraform(name, spec) ==
    [name |-> name, namespace |-> Namespace, generation |-> 1,
     deleting |-> FALSE, finalizers |-> {},
     spec |-> spec, status |-> EmptyStatus]

\* tf_controller.go:483, terraform_types.go:468
DependantFinalizer(name) == <<TFDependencyOfPrefix, name>>

\* strings.HasPrefix(finalizer, TFDependencyOfPrefix), tf_controller.go:155
IsDependantFinalizer(finalizer) == finalizer[1] = TFDependencyOfPrefix

\* No object is taken to be under deletion.
neverBeingDeleted(terraform) == FALSE

\* tf_controller.go:402-404
isBeingDeleted(terraform) == terraform.deleting

\* The API server's answer to a merge patch of metadata.finalizers
\* (client.MergeFrom without optimistic lock, tf_controller.go:135-138 and
\* 500-502): the stored list is replaced by the patch's list.  The server
\* refuses a patch of an object that is gone, and one that adds a finalizer to
\* an object whose deletion timestamp is set.
PatchFinalizersAllowed(st, name, finalizers) ==
    /\ st[name] # Nil
    /\ Deref(st[name]).deleting => finalizers \subseteq Deref(st[name]).finalizers

\* The store after the finalizers of an object are set: an object under
\* deletion whose last finalizer is removed is gone.
WithFinalizers(st, name, finalizers) ==
    IF Deref(st[name]).deleting /\ finalizers = {}
    THEN [st EXCEPT ![name] = Nil]
    ELSE [st EXCEPT ![name] = Ptr([Deref(@) EXCEPT !.finalizers = finalizers])]

\* tf_controller.go:714-728: the stored status becomes newStatus (a merge
\* patch against the object as just read).  Fails when the object is gone.
patchStatusAllowed(st, name) == st[name] # Nil

patchStatus(st, name, newStatus) ==
    [st EXCEPT ![name] = Ptr([Deref(@) EXCEPT !.status = newStatus])]


\* ------------------------------------------------------- the work queue
\* The controller built at tf_controller.go:448-479 feeds Reconcile from a
\* work queue that hands an item to one worker at a time: an item added while
\* it is being processed is marked dirty and queued again when its processing
\* is done.
\* A queue that queues an item again while it is being processed.
QueueAddWhileProcessing(q, item) ==
    IF item \in q.dirty THEN q
    ELSE [q EXCEPT !.dirty = @ \cup {item}, !.items = Append(@, item)]

QueueAdd(q, item) ==
    IF item \in q.dirty THEN q
    ELSE IF item \in q.processing
         THEN [q EXCEPT !.dirty = @ \cup {item}]
         ELSE [q EXCEPT !.dirty = @ \cup {item}, !.items = Append(@, item)]

RECURSIVE QueueAddAll(_, _)
QueueAddAll(q, items) ==
    IF items = <<>> THEN q
    ELSE QueueAddAll(QueueAdd(q, Head(items)), Tail(items))

QueueGet(q) ==
    [items |-> Tail(q.items),
     dirty |-> q.dirty \ {Head(q.items)},
     processing |-> q.processing \cup {Head(q.items)}]

QueueDone(q, item) ==
    IF item \in q.dirty
    THEN [q EXCEPT !.processing = @ \ {item}, !.items = Append(@, item)]
    ELSE [q EXCEPT !.processing = @ \ {item}]

\* ----------------------------------------------------- ctrl.Result, error
NoError == "nil"
Result(requeue, requeueAfter, err) ==
    [requeue |-> requeue, requeueAfter |-> requeueAfter, err |-> err]

\* ------------------------------------------------------ artifact download
\* The bodies a download may serve: the byte sequences of at most MaxBodyLen
\* bytes over Bytes.
MaxBodyLen == 2
Bytes == {7, 200}
Bodies == UNION {[1..n -> Bytes] : n \in 0..MaxBodyLen}

\* sha1.New() and sha256.New() (tf_controller.go:731-736) with hasher.Sum(nil):
\* digests of Sha1Size and Sha256Size bytes that depend on every byte written.
Sha1Size == 20
Sha256Size == 32
RECURSIVE Fold(_, _)
Fold(body, acc) ==
    IF body = <<>> THEN acc
    ELSE Fold(Tail(body), (acc * 33 + Head(body) + 1) % 256)

sha1(body) == [i \in 1..Sha1Size |-> (Fold(body, 5) * 31 + i * 7 + 11) % 256]
sha256(body) == [i \in 1..Sha256Size |-> (Fold(body, 9) * 17 + i * 13 + 3) % 256]

\* fmt.Sprintf("%x", sum), tf_controller.go:743: two lower-case hexadecimal
\* digits per byte.
HexDigits ==
    <<"0", "1", "2", "3", "4", "5", "6", "7", "8", "9",
      "a", "b", "c", "d", "e", "f">>
Hex(sum) ==
    [i \in 1..(2 * Len(sum)) |->
        LET b == sum[(i + 1) \div 2]
        IN  IF i % 2 = 1 THEN HexDigits[(b \div 16) + 1]
            ELSE HexDigits[(b % 16) + 1]]

\* http.StatusOK, tf_controller.go:654
StatusOK == 200
\* The length of checksum that selects the legacy hash, tf_controller.go:734
LegacyChecksumLength == 40

\* A reader of a response body: reading yields the body, or the first read
\* bytes of it followed by an error.
Reader(body, err, read) == [body |-> body, err |-> err, read |-> read]

\* The hash verifyArtifact selects without the legacy case.
strongHasher(checksum, bytes) == sha256(bytes)

\* tf_controller.go:731-736: the hash is chosen by the length of the checksum.
hasher(checksum, bytes) ==
    IF Len(checksum) = LegacyChecksumLength THEN sha1(bytes) ELSE sha256(bytes)

\* tf_controller.go:730-750: copy the reader into the hasher and into buf,
\* then compare the digest in hexadecimal to the advertised checksum.
\* Answers <<err, the contents of buf>>.
verifyArtifact(artifact, reader) ==
    LET copied == IF reader.err THEN SubSeq(reader.body, 1, reader.read)
                  ELSE reader.body
        checksum == Hex(hasher(artifact.checksum, copied))
    IN  IF reader.err THEN [err |-> "unexpected EOF", buf |-> copied]
        ELSE IF checksum # artifact.checksum
        THEN [err |-> "failed to verify artifact", buf |-> copied]
        ELSE [err |-> NoError, buf |-> copied]

\* tf_controller.go:631-666: request the artifact's URL, require status 200
\* and verify the body; a buffer is returned only without an error.
downloadAsBytes(artifact, resp) ==
    IF artifact.url = "://"
    THEN [err |-> "failed to create a new request", buf |-> Nil]
    ELSE IF resp.err
    THEN [err |-> "failed to download artifact", buf |-> Nil]
    ELSE IF resp.statusCode # StatusOK
    THEN [err |-> "failed to download artifact, status", buf |-> Nil]
    ELSE LET verified == verifyArtifact(artifact, resp.body)
         IN  IF verified.err # NoError
             THEN [err |-> verified.err, buf |-> Nil]
             ELSE [err |-> NoError, buf |-> Ptr(verified.buf)]

\* ----------------------------------------------------------- the workers
\* A worker outside Reconcile.
IdleWorker ==
    [pc |-> "idle", req |-> "", fetched |-> Nil, terraform |-> Nil,
     sourceObj |-> Nil,
     depIndex |-> 0, tf |-> Nil, deps |-> <<>>, result |-> Nil,
     runner |-> FALSE, reconciledTerraform |-> Nil,
     \* what the attempt did so far, for the properties
     invoked |-> Nil, applied |-> EmptyString, patched |-> 0, trace |-> {}]

\* The approval predicates of the reconciler (its plan/apply source file):
\* approval is forced or automatic ...
forceOrAutoApply(terraform) ==
    terraform.spec.force \/ terraform.spec.approvePlan = ApprovePlanAutoValue

\* ... or the approval calls for applying: forced, automatic with a plan
\* pending, or approvePlan naming the pending plan.
shouldApply(terraform) ==
    \/ terraform.spec.force
    \/ /\ terraform.spec.approvePlan = ApprovePlanAutoValue
       /\ terraform.status.plan.pending # EmptyString
    \/ /\ terraform.spec.approvePlan # EmptyString
       /\ terraform.spec.approvePlan = terraform.status.plan.pending


\* -------------------------------------------------- the plan/apply cycle
\* r.reconcile (the reconciler's plan/apply source file), as the design
\* describes it: plan unless a plan is pending, then apply the pending plan
\* when the approval calls for it.  plan and apply are what the runner
\* answers.  The field applied is the plan id that was applied, if any.
PlanOutcomes == {"failed", "no changes", "changes", "drift"}
ApplyOutcomes == {"failed", "applied"}

\* The outcome of the cycle: the object as reconciled, the error, and the
\* plan id that was applied, if any.
Reconciliation(terraform, err, applied) ==
    [terraform |-> terraform, err |-> err, applied |-> applied]

\* The plan step: what the answer plan of the runner makes of terraform.
planned(terraform, revision, plan, t) ==
    IF plan = "changes"
    THEN TerraformPlannedWithChanges(terraform, revision,
            forceOrAutoApply(terraform), <<"Plan generated">>, t)
    ELSE TerraformPlannedNoChanges(terraform, revision, <<"Plan no changes">>, t)

\* The outputs step: an applied object that declares an output Secret has it
\* written.
written(terraform, revision, t) ==
    IF terraform.spec.writeOutputsToSecret # Nil
    THEN TerraformOutputsWritten(terraform, revision, <<"Outputs written">>, t)
    ELSE terraform

\* The apply step on the object being applied, whose plan id was pending.
applied(applying, pending, revision, apply, t) ==
    IF apply = "failed"
    THEN Reconciliation(
            TerraformAppliedFailResetPlanAndNotReady(applying, revision,
                TFExecApplyFailedReason, <<"error running Apply">>, t),
            "error running Apply", EmptyString)
    ELSE Reconciliation(
            written(TerraformApplied(applying, revision,
                        <<"Applied successfully">>, applying.spec.destroy,
                        <<>>, t),
                    revision, t),
            NoError, pending)

\* The steps after the plan: apply the pending plan when the approval calls
\* for it.
afterPlan(terraform, revision, apply, t) ==
    IF terraform.status.plan.pending = EmptyString \/ ~shouldApply(terraform)
    THEN Reconciliation(terraform, NoError, EmptyString)
    ELSE applied(TerraformApplying(terraform, revision, <<"Applying">>, t),
                 terraform.status.plan.pending, revision, apply, t)

reconcile(terraform, revision, plan, apply, t) ==
    IF /\ plan = "drift"
       /\ terraform.status.plan.pending = EmptyString
       /\ terraform.status.lastAppliedRevision = revision
    THEN Reconciliation(
            TerraformDriftDetected(terraform, revision, DriftDetectedReason,
                                   <<"Drift detected">>, t),
            DriftDetectedReason, EmptyString)
    ELSE IF ~(terraform.spec.force
                \/ terraform.status.plan.pending = EmptyString)
    THEN afterPlan(terraform, revision, apply, t)
    ELSE IF plan = "failed"
    THEN Reconciliation(
            TerraformNotReady(terraform, revision, TFExecPlanFailedReason,
                              <<"error running Plan">>, t),
            "error running Plan", EmptyString)
    ELSE afterPlan(planned(terraform, revision, plan, t), revision, apply, t)

\* ------------------------------------------------------------------- Init
\* A TerraformSpec.  Durations are in seconds.
TerraformSpec(approvePlan, dependsOn, sourceNamespace, retryInterval, outputs) ==
    [suspend |-> FALSE, force |-> FALSE, approvePlan |-> approvePlan,
     destroy |-> FALSE, dependsOn |-> dependsOn,
     sourceRef |-> [kind |-> GitRepositoryKind, namespace |-> sourceNamespace,
                    name |-> "src"],
     writeOutputsToSecret |-> outputs,
     interval |-> 60, retryInterval |-> retryInterval,
     alwaysCleanupRunnerPod |-> Nil]

\* A dependency reference (meta.NamespacedObjectReference).
DependsOnRef(namespace, name) == [namespace |-> namespace, name |-> name]

\* An object a previous run of the controller reconciled at revision (planned
\* and applied), as Reconcile leaves it.
Reconciled(terraform, revision) ==
    reconcile(TerraformProgressing(
                [terraform EXCEPT !.finalizers = {TerraformFinalizer}],
                <<"Reconciliation in progress">>, 0),
              revision, "changes", "applied", 0).terraform

\* The bytes of the source at revision.
Content(revision) == IF revision = Rev1 THEN <<7>> ELSE <<200>>

\* What the download of artifact is answered with: the origin serves the
\* bytes of the revision, a mirror serves them with a byte added.
Served(artifact) ==
    [err |-> FALSE, statusCode |-> StatusOK,
     body |-> IF artifact.url = "origin"
              THEN Reader(Content(artifact.revision), FALSE, 0)
              ELSE Reader(Content(artifact.revision) \o <<7>>, FALSE, 0)]

\* A source object: its artifact (sourcev1.Artifact) is nil or has a revision,
\* a URL and a checksum.
Source(artifact) == [artifact |-> artifact]
Artifact(revision) ==
    [revision |-> revision, url |-> "origin",
     checksum |-> Hex(sha256(Content(revision)))]
NoSource == Nil
SourceWithoutArtifact == Ptr(Source(Nil))
SourceAt(revision) == Ptr(Source(Ptr(Artifact(revision))))

\* The objects of a store in which only x exists.
Single(approvePlan) ==
    [o \in Objs |->
        IF o = "x"
        THEN Ptr(NewTerraform("x",
                TerraformSpec(approvePlan, <<>>, "", Ptr(30), Nil)))
        ELSE Nil]

\* The objects of a store in which x and y both depend on dObj, x naming the
\* namespaces of the dependency and of the source implicitly, y explicitly.
Dependents(dObj) ==
    [o \in Objs |->
        IF o = "d" THEN Ptr(dObj)
        ELSE IF o = "x"
        THEN Ptr(NewTerraform("x",
                TerraformSpec(EmptyString, <<DependsOnRef("", "d")>>, "",
                              Ptr(30), Nil)))
        ELSE Ptr(NewTerraform("y",
                TerraformSpec(EmptyString, <<DependsOnRef(Namespace, "d")>>,
                              Namespace, Nil, Nil)))]

\* The dependency d, with an output Secret.
Dependency ==
    NewTerraform("d", TerraformSpec(ApprovePlanAutoValue, <<>>, Namespace,
                                    Nil, Ptr("d-outputs")))

\* The objects of a store in which x and y depend on each other and d refers
\* to a Bucket.
Circular ==
    [o \in Objs |->
        IF o = "d"
        THEN Ptr(NewTerraform("d",
                [TerraformSpec(ApprovePlanAutoValue, <<>>, "", Nil, Nil)
                    EXCEPT !.sourceRef.kind = BucketKind]))
        ELSE IF o = "x"
        THEN Ptr(NewTerraform("x",
                TerraformSpec(EmptyString, <<DependsOnRef("", "y")>>, "",
                              Ptr(30), Nil)))
        ELSE Ptr(NewTerraform("y",
                TerraformSpec(EmptyString, <<DependsOnRef("", "x")>>, "",
                              Nil, Nil)))]

\* The dependency as a previous run of the controller left it: reconciled at
\* revision, with the finalizer x registered on it.
Held(revision) ==
    [Reconciled(Dependency, revision) EXCEPT
        !.finalizers = @ \cup {DependantFinalizer("x")}]

\* The objects of a store in which only x exists, as a previous run of the
\* controller left it in manual mode with a plan pending at revision, and
\* since then forced by its user.
Forced(revision) ==
    [o \in Objs |->
        IF o = "x"
        THEN Ptr([Reconciled(Deref(Single(EmptyString)[o]), revision)
                    EXCEPT !.spec.force = TRUE])
        ELSE Nil]

\* The clusters the controller may start in: the objects, the source, whether
\* the CA is valid, and the order in which the objects are queued (every
\* object that exists is queued when the controller starts).
Scenarios ==
    {[store |-> Single(EmptyString), source |-> src, valid |-> v,
      queue |-> <<"x">>] :
        src \in {NoSource, SourceWithoutArtifact, SourceAt(Rev1)},
        v \in BOOLEAN}
    \cup {[store |-> Single(ApprovePlanAutoValue), source |-> SourceAt(Rev1),
           valid |-> TRUE, queue |-> <<"x">>]}
    \cup {[store |-> Forced(Rev1), source |-> SourceAt(Rev1),
           valid |-> TRUE, queue |-> <<"x">>]}
    \cup {[store |-> Single(ApprovePlanAutoValue),
           source |-> Ptr(Source(Ptr([Artifact(Rev1) EXCEPT !.url = "mirror"]))),
           valid |-> TRUE, queue |-> <<"x">>]}
    \cup {[store |-> Dependents(Dependency), source |-> SourceAt(Rev1),
           valid |-> TRUE, queue |-> q] :
            q \in {<<"d", "x", "y">>, <<"x", "y", "d">>}}
    \cup {[store |-> Dependents(Reconciled(Dependency, Rev1)),
           source |-> SourceAt(Rev1), valid |-> TRUE,
           queue |-> <<"d", "x", "y">>]}
    \cup {[store |-> Dependents(Held(Rev1)), source |-> src,
           valid |-> TRUE, queue |-> <<"d", "x", "y">>] :
            src \in {SourceAt(Rev1), SourceWithoutArtifact}}
    \cup {[store |-> Circular, source |-> SourceAt(Rev1), valid |-> TRUE,
           queue |-> <<"d", "x", "y">>]}
    \* x was left in manual mode with a plan pending at the revision of the
    \* source, alone or depending on d, which was never reconciled
    \cup {[store |-> [Single(EmptyString) EXCEPT
                        !["x"] = Ptr(Reconciled(Deref(@), Rev1))],
           source |-> SourceAt(Rev1), valid |-> TRUE, queue |-> <<"x">>]}
    \cup {[store |-> [Dependents(Dependency) EXCEPT
                        !["x"] = Ptr(Reconciled(Deref(@), Rev1)),
                        !["y"] = Nil],
           source |-> SourceAt(Rev1), valid |-> TRUE, queue |-> <<"x", "d">>]}
    \* x was applied automatically at the first revision, and the source has
    \* moved to the second
    \cup {[store |-> [Single(ApprovePlanAutoValue) EXCEPT
                        !["x"] = Ptr(Reconciled(Deref(@), Rev1))],
           source |-> SourceAt(Rev2), valid |-> TRUE, queue |-> <<"x">>]}
    \* x was left in manual mode with a plan pending at the first revision;
    \* the artifact of the source has gone since, or the state was found
    \* locked
    \cup {[store |-> [Single(EmptyString) EXCEPT
                        !["x"] = Ptr(Reconciled(Deref(@), Rev1))],
           source |-> SourceWithoutArtifact, valid |-> TRUE, queue |-> <<"x">>]}
    \cup {[store |-> [Single(EmptyString) EXCEPT
                        !["x"] = Ptr(TerraformStateLocked(
                                        Reconciled(Deref(@), Rev1),
                                        <<"l", "1">>, <<"state locked">>, 0))],
           source |-> SourceAt(Rev1), valid |-> TRUE, queue |-> <<"x">>]}
    \* the runner pod of x is kept after an attempt
    \cup {[store |-> [Single(EmptyString) EXCEPT
                        !["x"] = Ptr([Deref(@) EXCEPT
                                        !.spec.alwaysCleanupRunnerPod = Ptr(FALSE)])],
           source |-> SourceAt(Rev1), valid |-> TRUE, queue |-> <<"x">>]}
    \* x is suspended and names a dependency
    \cup {[store |-> [Single(EmptyString) EXCEPT
                        !["x"] = Ptr([Deref(@) EXCEPT
                                        !.spec.suspend = TRUE,
                                        !.spec.dependsOn = <<DependsOnRef("", "d")>>])],
           source |-> SourceAt(Rev1), valid |-> TRUE, queue |-> <<"x">>]}
    \* x depends on y, never reconciled, and then on d, reconciled before
    \cup {[store |-> [Dependents(Reconciled(Dependency, Rev1)) EXCEPT
                        !["x"] = Ptr([Deref(@) EXCEPT !.spec.dependsOn =
                                        <<DependsOnRef("", "y")>> \o @]),
                        !["y"] = Ptr([Deref(@) EXCEPT !.spec.dependsOn = <<>>])],
           source |-> SourceAt(Rev1), valid |-> TRUE,
           queue |-> <<"x", "y", "d">>]}

Init ==
    /\ \E scenario \in Scenarios :
        /\ store = scenario.store
        /\ sources = [k \in {SourceKey} |-> scenario.source]
        /\ ca = [ready |-> FALSE, valid |-> scenario.valid, requests |-> {}]
        /\ queue = QueueAddAll([items |-> <<>>, dirty |-> {},
                                processing |-> {}], scenario.queue)
    \* the output Secret of an object that was applied exists
    /\ secrets = {Deref(Deref(store[o]).spec.writeOutputsToSecret) :
                    o \in {n \in Objs :
                             /\ store[n] # Nil
                             /\ Deref(store[n]).spec.writeOutputsToSecret # Nil
                             /\ Deref(store[n]).status.lastAppliedRevision
                                    # EmptyString}}
    /\ wk = [w \in Workers |-> IdleWorker]
    /\ now = 0
    /\ watch = Nil
    /\ attempts = 0
    /\ envSteps = [env |-> 0, faults |-> 0]
    /\ fetch = Nil
    \* the override is a setting of the controller's process, tried with the
    \* one object that is applied automatically
    /\ insecureLocalRunner \in BOOLEAN
    /\ insecureLocalRunner =>
        /\ store = Single(ApprovePlanAutoValue)
        /\ sources[SourceKey] = SourceAt(Rev1)
        /\ ca.valid
    /\ steps = 0
    /\ pod = NoPoll
    /\ locks = <<>>


\* ------------------------------------------------------------ environment
EnvStep == /\ envSteps.env < MaxEnvSteps
           /\ envSteps' = [envSteps EXCEPT !.env = @ + 1]

Goto(w, pc) == [wk EXCEPT ![w].pc = pc]

\* The attempt of worker w returns result (deferred calls not yet run).
Return(worker, result) ==
    [worker EXCEPT !.pc = IF worker.runner THEN "cleanup" ELSE "done",
                   !.result = Ptr(result)]

\* The work queue hands the next request to an idle worker, which enters
\* Reconcile (controller-runtime; the controller is built at
\* tf_controller.go:448-479).
Dequeue(w) ==
    /\ wk[w].pc = "idle"
    /\ queue.items # <<>>
    /\ attempts < MaxAttempts
    /\ attempts' = attempts + 1
    /\ queue' = QueueGet(queue)
    /\ wk' = [wk EXCEPT ![w] = [IdleWorker EXCEPT !.pc = "start",
                                                 !.req = Head(queue.items)]]
    /\ UNCHANGED <<locks, pod, steps, insecureLocalRunner, fetch, store, sources, secrets, ca, now, watch, envSteps>>

\* The certificate rotator signals its initial readiness (closes Ready).
RotatorReady ==
    /\ ~ca.ready
    /\ ca' = [ca EXCEPT !.ready = TRUE]
    /\ UNCHANGED <<locks, pod, steps, insecureLocalRunner, fetch, store, sources, secrets, queue, wk, now, watch, attempts, envSteps>>

\* The certificate authority's validity window ends.
CAExpires ==
    /\ ca.valid
    /\ EnvStep
    /\ ca' = [ca EXCEPT !.valid = FALSE]
    /\ UNCHANGED <<locks, pod, steps, insecureLocalRunner, fetch, store, sources, secrets, queue, wk, now, watch, attempts>>

\* A check of the certificate that does not wait for the rotator's readiness.
ValidateCertUnready(w) ==
    /\ wk[w].pc = "start"
    /\ wk' = IF ca.valid
             THEN Goto(w, "get")
             ELSE [wk EXCEPT ![w].pc = "trigger",
                             ![w].trace = @ \cup {"ca invalid at start"}]
    /\ UNCHANGED <<locks, pod, steps, insecureLocalRunner, fetch, store, sources, secrets, queue, ca, now, watch, attempts, envSteps>>

\* tf_controller.go:106-111: wait for the rotator's readiness, then check the
\* CA; when it is invalid make a channel for the reply and go on to send the
\* trigger.
ValidateCert(w) ==
    /\ wk[w].pc = "start"
    /\ ca.ready
    /\ wk' = IF ca.valid
             THEN Goto(w, "get")
             ELSE [wk EXCEPT ![w].pc = "trigger",
                             ![w].trace = @ \cup {"ca invalid at start"}]
    /\ UNCHANGED <<locks, pod, steps, insecureLocalRunner, fetch, store, sources, secrets, queue, ca, now, watch, attempts, envSteps>>

\* tf_controller.go:113-115: the send of worker w on TriggerCARotation
\* completes, the rotator now holding the trigger with the channel of w, and
\* w waits on that channel.
RotatorReceives(w) ==
    /\ wk[w].pc = "trigger"
    /\ ca' = [ca EXCEPT !.requests = @ \cup {w}]
    /\ wk' = [wk EXCEPT ![w].pc = "rotating"]
    /\ UNCHANGED <<locks, pod, steps, insecureLocalRunner, fetch, store, sources, secrets, queue, now, watch, attempts, envSteps>>

\* The rotator rotates for a trigger it holds and replies on the channel of
\* that trigger with a TriggerResult, which line 115 receives and drops.
\* A rotation that succeeds makes the CA valid.
RotatorReplies(w) ==
    /\ wk[w].pc = "rotating"
    /\ w \in ca.requests
    /\ \E rotated \in BOOLEAN :
        /\ ca' = [ca EXCEPT !.valid = @ \/ rotated, !.requests = @ \ {w}]
        /\ wk' = [wk EXCEPT ![w].pc = "get",
                            ![w].trace = @ \cup
                                (IF rotated THEN {"rotated"} ELSE {})]
    /\ UNCHANGED <<locks, pod, steps, insecureLocalRunner, fetch, store, sources, secrets, queue, now, watch, attempts, envSteps>>

\* An API call may fail for a reason of the cluster's (the network, the API
\* server); each such fault is a step of the environment.  An action draws
\* which of its calls fails, if any.
NoFault == "none"
Faults(calls) ==
    IF envSteps.faults < MaxFaults THEN {NoFault} \cup calls ELSE {NoFault}
Faulted(fault) ==
    envSteps' = IF fault # NoFault THEN [envSteps EXCEPT !.faults = @ + 1]
                ELSE envSteps

\* An error of r.Get that is returned as it is.
KeepNotFound(err) == err

\* client.IgnoreNotFound as called at tf_controller.go:123: a not-found error
\* of r.Get is no error.
IgnoreNotFound(err) == IF err = "not found" THEN NoError ELSE err

\* tf_controller.go:119-124
FetchResource(w) ==
    /\ wk[w].pc = "get"
    /\ \E fault \in Faults({"get"}) :
        /\ Faulted(fault)
        /\ wk' = IF fault = "get"
                 THEN [wk EXCEPT ![w] =
                        Return(@, Result(FALSE, 0, IgnoreNotFound("get failed")))]
                 ELSE IF store[wk[w].req] = Nil
                 THEN [wk EXCEPT ![w] =
                        Return([@ EXCEPT !.trace = @ \cup {"not found"}],
                               Result(FALSE, 0, IgnoreNotFound("not found")))]
                 ELSE [wk EXCEPT ![w].pc = "finalizer",
                                 ![w].fetched = store[wk[w].req],
                                 ![w].terraform = store[wk[w].req]]
    /\ UNCHANGED <<locks, pod, steps, insecureLocalRunner, fetch, store, sources, secrets, queue, ca, now, watch, attempts>>

\* No object is taken to be suspended.
NeverSuspended(terraform) == FALSE

\* tf_controller.go:146: the object is suspended.
Suspended(terraform) == terraform.spec.suspend

\* The finalizer step without the stop of a suspended object.
EnsureFinalizerOnly(w) ==
    /\ wk[w].pc = "finalizer"
    /\ LET terraform == Deref(wk[w].terraform)
           name == wk[w].req
           finalizers == terraform.finalizers \cup {TerraformFinalizer}
           needed == TerraformFinalizer \notin terraform.finalizers
       IN  \E fault \in Faults(IF needed THEN {"patch"} ELSE {}) :
            LET patchOk == fault = NoFault
                            /\ PatchFinalizersAllowed(store, name, finalizers)
                stored == IF needed /\ patchOk
                          THEN WithFinalizers(store, name, finalizers)
                          ELSE store
                fresh == IF needed /\ patchOk THEN Deref(stored[name]) ELSE terraform
            IN  /\ Faulted(fault)
                /\ store' = stored
                /\ wk' = IF needed /\ ~patchOk
                         THEN [wk EXCEPT ![w] =
                                Return(@, Result(FALSE, 0,
                                                 "unable to register finalizer"))]
                         ELSE [wk EXCEPT ![w].pc = "deletion",
                                         ![w].terraform = Ptr(fresh)]
    /\ UNCHANGED <<locks, pod, steps, insecureLocalRunner, fetch, sources, secrets, queue, ca, now, watch, attempts>>

\* tf_controller.go:131-149: add the controlling finalizer when the snapshot
\* lacks it (the patch answers with the stored object, which replaces the
\* snapshot), then stop when the object is suspended.
EnsureFinalizer(w) ==
    /\ wk[w].pc = "finalizer"
    /\ LET terraform == Deref(wk[w].terraform)
           name == wk[w].req
           finalizers == terraform.finalizers \cup {TerraformFinalizer}
           needed == TerraformFinalizer \notin terraform.finalizers
       IN  \E fault \in Faults(IF needed THEN {"patch"} ELSE {}) :
            LET patchOk == fault = NoFault
                            /\ PatchFinalizersAllowed(store, name, finalizers)
                stored == IF needed /\ patchOk
                          THEN WithFinalizers(store, name, finalizers)
                          ELSE store
                fresh == IF needed /\ patchOk THEN Deref(stored[name]) ELSE terraform
            IN  /\ Faulted(fault)
                /\ store' = stored
                /\ wk' = IF needed /\ ~patchOk
                         THEN [wk EXCEPT ![w] =
                                Return(@, Result(FALSE, 0,
                                                 "unable to register finalizer"))]
                         ELSE IF Suspended(fresh)
                         THEN [wk EXCEPT ![w] =
                                Return([@ EXCEPT !.terraform = Ptr(fresh)],
                                       Result(FALSE, 0, NoError))]
                         ELSE [wk EXCEPT ![w].pc = "deletion",
                                         ![w].terraform = Ptr(fresh)]
    /\ UNCHANGED <<locks, pod, steps, insecureLocalRunner, fetch, sources, secrets, queue, ca, now, watch, attempts>>

\* No finalizer is taken to name a dependant.
NoDependants(terraform) == {}

\* The dependants named by the finalizers of terraform (tf_controller.go:153-158).
Dependants(terraform) ==
    {f[2] : f \in {g \in terraform.finalizers : IsDependantFinalizer(g)}}

\* A status patch that is taken to succeed without reaching the store.
PatchStatusNotPersisted(st, worker, fault, onSuccess) ==
    <<st, [onSuccess EXCEPT !.patched = @ + 1]>>

\* One call of r.patchStatus on the store st with the status of the worker's
\* terraform (tf_controller.go:714-728) and the check of its error that
\* follows every call: on failure the attempt returns Requeue with the error,
\* otherwise it goes on as onSuccess.  The pair <<store', worker'>>.
PatchStatusOr(st, worker, fault, onSuccess) ==
    IF fault # "status" /\ patchStatusAllowed(st, worker.req)
    THEN <<patchStatus(st, worker.req, Deref(worker.terraform).status),
           [onSuccess EXCEPT !.patched = @ + 1]>>
    ELSE <<st, Return(worker, Result(TRUE, 0, "unable to update status"))>>

\* tf_controller.go:151-170: an object under deletion that dependants still
\* hold is marked not ready and retried later.
ExamineDeletion(w) ==
    /\ wk[w].pc = "deletion"
    /\ LET terraform == Deref(wk[w].terraform)
           blocked == isBeingDeleted(terraform) /\ Dependants(terraform) # {}
           notReady == TerraformNotReady(terraform, EmptyString,
                           DeletionBlockedByDependants,
                           <<"Deletion in progress, but blocked.">>, now)
           examined == [wk[w] EXCEPT !.trace = @ \cup {"examine deletion"}]
           worker == [examined EXCEPT !.terraform = Ptr(notReady),
                                      !.trace = @ \cup {"deletion blocked"}]
       IN  \E fault \in Faults(IF blocked THEN {"status"} ELSE {}) :
            LET next == PatchStatusOr(store, worker, fault,
                            Return(worker,
                                Result(FALSE, GetRetryInterval(notReady), NoError)))
            IN  /\ Faulted(fault)
                /\ store' = IF blocked THEN next[1] ELSE store
                /\ wk' = IF blocked
                         THEN [wk EXCEPT ![w] = next[2]]
                         ELSE [wk EXCEPT ![w] = [examined EXCEPT !.pc = "source"]]
    /\ UNCHANGED <<locks, pod, steps, insecureLocalRunner, fetch, sources, secrets, queue, ca, now, watch, attempts>>

\* tf_controller.go:583-629: <<err, source>>; the namespace of the reference
\* defaults to the object's own.
NotFound == "not found"
getSource(terraform, fault) ==
    LET sourceNamespace ==
            IF terraform.spec.sourceRef.namespace # ""
            THEN terraform.spec.sourceRef.namespace
            ELSE terraform.namespace
        key == <<terraform.spec.sourceRef.kind, sourceNamespace,
                 terraform.spec.sourceRef.name>>
    IN  IF terraform.spec.sourceRef.kind \notin
                {GitRepositoryKind, BucketKind, OCIRepositoryKind}
        THEN <<"source kind not supported", Nil>>
        ELSE IF fault = "get"
        THEN <<"unable to get source", Nil>>
        ELSE IF key \notin DOMAIN sources \/ sources[key] = Nil
        THEN <<NotFound, Nil>>
        ELSE <<NoError, sources[key]>>

\* tf_controller.go:172-212: resolve the source; a missing source or artifact
\* is recorded as not ready and retried later, any other error is returned.
ResolveSource(w) ==
    /\ wk[w].pc = "source"
    /\ \E fault \in Faults({"get", "status"}) :
        LET terraform == Deref(wk[w].terraform)
            got == getSource(terraform, fault)
            err == got[1]
            missing == err = NotFound
                        \/ (err = NoError /\ Deref(got[2]).artifact = Nil)
            notReady == TerraformNotReady(terraform, EmptyString,
                            ArtifactFailedReason,
                            IF err = NotFound
                            THEN <<"Source '", terraform.spec.sourceRef.name,
                                   "' not found">>
                            ELSE <<"Source is not ready, artifact not found">>,
                            now)
            resolved == [wk[w] EXCEPT !.trace = @ \cup {"get source"}]
            worker == [resolved EXCEPT !.terraform = Ptr(notReady),
                                       !.trace = @ \cup {"source not ready"}]
            next == PatchStatusOr(store, worker, fault,
                        Return(worker,
                               Result(FALSE, GetRetryInterval(notReady), NoError)))
        IN  /\ fault = "status" => missing
            /\ Faulted(fault)
            /\ store' = IF missing THEN next[1] ELSE store
            /\ wk' = IF missing
                     THEN [wk EXCEPT ![w] = next[2]]
                     ELSE IF err # NoError
                     THEN [wk EXCEPT ![w] =
                            Return([resolved EXCEPT
                                        !.trace = @ \cup {"source error"}],
                                   Result(TRUE, 0, err))]
                     ELSE [wk EXCEPT ![w] =
                            [resolved EXCEPT
                                !.sourceObj = got[2],
                                !.depIndex = 1,
                                !.pc = IF Len(terraform.spec.dependsOn) > 0
                                            /\ ~isBeingDeleted(terraform)
                                       THEN "dependency" ELSE "progressing"]]
    /\ UNCHANGED <<locks, pod, steps, insecureLocalRunner, fetch, sources, secrets, queue, ca, now, watch, attempts>>

\* An artifact taken to have no revision.
NoRevision(worker) == EmptyString

\* The revision of the worker's source artifact (sourceObj.GetArtifact().Revision).
Revision(worker) == Deref(Deref(worker.sourceObj).artifact).revision

\* An event that is emitted as Normal whatever its severity.
eventOfNormalType(worker, severity) ==
    [worker EXCEPT !.trace = @ \cup {"event", "Normal"}]

\* tf_controller.go:771-803: the event recorder is handed an event whose type
\* is Warning for the severity error and Normal otherwise.
event(worker, severity) ==
    [worker EXCEPT !.trace = @ \cup
        {"event", IF severity = "error" THEN "Warning" ELSE "Normal"}]

\* A failed dependency check that is retried without marking the object.
DependencyNotRecorded(st, worker, err, fault) ==
    <<st, Return([worker EXCEPT !.trace = @ \cup {"dependency not ready", "event"}],
                 Result(FALSE, GetRetryInterval(Deref(worker.terraform)),
                        NoError))>>

\* tf_controller.go:216-231: checkDependencies returned err; the object is
\* marked not ready, an event is emitted and the attempt is retried after the
\* retry interval.  The pair <<store', worker'>>.
DependencyNotReady(st, worker, err, fault) ==
    LET notReady == TerraformNotReady(Deref(worker.terraform), Revision(worker),
                        DependencyNotReadyReason, <<err>>, now)
        failed == [worker EXCEPT !.terraform = Ptr(notReady),
                                 !.trace = @ \cup {"dependency not ready"}]
    IN  PatchStatusOr(st, failed, fault,
            Return(event(failed, "info"),
                   Result(FALSE, GetRetryInterval(notReady), NoError)))

\* tf_controller.go:484-496: fetch the next dependency, its namespace
\* defaulting to the dependent's.
GetDependency(w) ==
    /\ wk[w].pc = "dependency"
    /\ \E fault \in Faults({"get", "status"}) :
        LET terraform == Deref(wk[w].terraform)
            d == terraform.spec.dependsOn[wk[w].depIndex]
            namespace == IF d.namespace = "" THEN terraform.namespace
                         ELSE d.namespace
            found == /\ fault # "get"
                     /\ namespace = Namespace
                     /\ d.name \in Objs
                     /\ store[d.name] # Nil
            next == DependencyNotReady(store, wk[w], "unable to get dependency",
                                       fault)
        IN  /\ fault = "status" => ~found
            /\ Faulted(fault)
            /\ store' = IF found THEN store ELSE next[1]
            /\ wk' = IF found
                     THEN [wk EXCEPT ![w].pc = "register",
                                     ![w].tf = store[d.name]]
                     ELSE [wk EXCEPT ![w] = next[2]]
    /\ UNCHANGED <<locks, pod, steps, insecureLocalRunner, fetch, sources, secrets, queue, ca, now, watch, attempts>>

\* checkDependencies without the comparison of the generations.
dependencyErrorIgnoringGeneration(terraform, tf, revision, secretFound) ==
    IF Len(tf.status.conditions) = 0
    THEN "dependency is not ready"
    ELSE IF ~IsStatusConditionTrue(tf.status.conditions, ReadyCondition)
    THEN "dependency is not ready"
    ELSE IF tf.spec.writeOutputsToSecret # Nil /\ ~secretFound
    THEN "dependency output secret is not ready yet"
    ELSE NoError

\* tf_controller.go:507-533: what checkDependencies requires of a dependency
\* tf of terraform once its finalizer is registered; NoError when it is met.
dependencyError(terraform, tf, revision, secretFound) ==
    IF Len(tf.status.conditions) = 0
        \/ tf.generation # tf.status.observedGeneration
    THEN "dependency is not ready"
    ELSE IF ~IsStatusConditionTrue(tf.status.conditions, ReadyCondition)
    THEN "dependency is not ready"
    ELSE IF /\ tf.spec.sourceRef.name = terraform.spec.sourceRef.name
            /\ tf.spec.sourceRef.namespace = terraform.spec.sourceRef.namespace
            /\ tf.spec.sourceRef.kind = terraform.spec.sourceRef.kind
            /\ revision # tf.status.lastAppliedRevision
            /\ revision # tf.status.lastPlannedRevision
    THEN "dependency is not updated yet"
    ELSE IF tf.spec.writeOutputsToSecret # Nil /\ ~secretFound
    THEN "dependency output secret is not ready yet"
    ELSE NoError

\* tf_controller.go:498-535: register the dependant finalizer on the
\* dependency as fetched (a merge patch from the fetched copy, which the
\* answer replaces), check the dependency, and go on to the next one.
RegisterAndCheckDependency(w) ==
    /\ wk[w].pc = "register"
    /\ LET terraform == Deref(wk[w].terraform)
           tf == Deref(wk[w].tf)
           dependantFinalizer == DependantFinalizer(terraform.name)
           needed == dependantFinalizer \notin tf.finalizers
           finalizers == tf.finalizers \cup {dependantFinalizer}
       IN  \E fault \in Faults((IF needed THEN {"patch"} ELSE {}) \cup {"status"}) :
            LET registered == fault # "patch"
                                /\ PatchFinalizersAllowed(store, tf.name, finalizers)
                stored == IF needed /\ registered
                          THEN WithFinalizers(store, tf.name, finalizers)
                          ELSE store
                fresh == IF needed /\ registered THEN Deref(stored[tf.name]) ELSE tf
                secretFound ==
                    /\ tf.spec.writeOutputsToSecret # Nil
                    /\ Deref(tf.spec.writeOutputsToSecret) \in secrets
                err == IF needed /\ ~registered
                       THEN "unable to add finalizer to dependency"
                       ELSE dependencyError(terraform, fresh, Revision(wk[w]),
                                            secretFound)
                last == wk[w].depIndex = Len(terraform.spec.dependsOn)
                checked == [wk[w] EXCEPT
                                !.tf = Nil,
                                !.deps = Append(@, fresh),
                                !.depIndex = @ + 1,
                                !.pc = IF last THEN "progressing" ELSE "dependency"]
                next == DependencyNotReady(stored,
                            [wk[w] EXCEPT !.tf = Nil, !.deps = Append(@, fresh)],
                            err, fault)
            IN  /\ fault = "status" => err # NoError
                /\ Faulted(fault)
                /\ store' = IF err = NoError THEN stored ELSE next[1]
                /\ wk' = [wk EXCEPT ![w] = IF err = NoError THEN checked
                                            ELSE next[2]]
    /\ UNCHANGED <<locks, pod, steps, insecureLocalRunner, fetch, sources, secrets, queue, ca, now, watch, attempts>>

\* tf_controller.go:236-255: unless readiness is Unknown, flip to Progressing
\* and persist.
Progressing(w) ==
    /\ wk[w].pc = "progressing"
    /\ LET terraform == Deref(wk[w].terraform)
           ready == FindStatusCondition(terraform.status.conditions, ReadyCondition)
           flip == ready = Nil \/ Deref(ready).status # ConditionUnknown
           msg == IF isBeingDeleted(terraform) THEN <<"Deletion in progress">>
                  ELSE <<"Reconciliation in progress">>
           worker == [wk[w] EXCEPT
                        !.terraform = Ptr(TerraformProgressing(terraform, msg, now))]
       IN  \E fault \in Faults(IF flip THEN {"status"} ELSE {}) :
            LET next == PatchStatusOr(store, worker, fault,
                                      [worker EXCEPT !.pc = "runner"])
            IN  /\ Faulted(fault)
                /\ store' = IF flip THEN next[1] ELSE store
                /\ wk' = IF flip THEN [wk EXCEPT ![w] = next[2]]
                         ELSE Goto(w, "runner")
    /\ UNCHANGED <<locks, pod, steps, insecureLocalRunner, fetch, sources, secrets, queue, ca, now, watch, attempts>>

\* tf_controller.go:257-270: the provisioning routine (the reconciler's runner
\* source file) answers with a connected runner or with an error, which ends
\* the attempt.  The trace keeps whether the CA was valid at the call.
LookupOrCreateRunner(w) ==
    /\ wk[w].pc = "runner"
    /\ \E fault \in Faults({"runner"}) :
        /\ Faulted(fault)
        /\ wk' = IF fault = "runner"
                 THEN [wk EXCEPT ![w] =
                        Return([@ EXCEPT !.trace = @ \cup {"runner failed"}],
                               Result(FALSE, 0, "unable to lookup or create runner"))]
                 ELSE [wk EXCEPT ![w].runner = TRUE,
                                 ![w].trace = @ \cup
                                    (IF ca.valid THEN {"runner"}
                                     ELSE {"runner", "stale runner"}),
                                 ![w].pc = IF isBeingDeleted(Deref(wk[w].terraform))
                                           THEN "finalize" ELSE "pending"]
    /\ UNCHANGED <<locks, pod, steps, insecureLocalRunner, fetch, store, sources, secrets, queue, ca, now, watch, attempts>>

\* The store after the dependant finalizer of name is taken off each of the
\* dependencies dependsOn that still exist.
RECURSIVE ReleaseDependencies(_, _, _)
ReleaseDependencies(st, name, dependsOn) ==
    IF dependsOn = <<>> THEN st
    ELSE LET d == Head(dependsOn).name
             released ==
                IF st[d] = Nil THEN st
                ELSE WithFinalizers(st, d,
                        Deref(st[d]).finalizers \ {DependantFinalizer(name)})
         IN  ReleaseDependencies(released, name, Tail(dependsOn))

\* An attempt that goes on whatever r.finalize returned.
afterFinalizeFallsThrough(worker, result) == [worker EXCEPT !.pc = "pending"]

\* tf_controller.go:332-334: the attempt returns what r.finalize returned
\* when that is an error, and goes on to line 338 otherwise.
afterFinalize(worker, result) ==
    IF result.err # NoError THEN Return(worker, result)
    ELSE [worker EXCEPT !.pc = "pending"]

\* A finalize whose success ends the attempt.
finalizeAndReturn(w) ==
    /\ wk[w].pc = "finalize"
    /\ \E fault \in Faults({"destroy"}) :
        LET terraform == Deref(wk[w].terraform)
            name == wk[w].req
            held == /\ store[name] # Nil
                    /\ \E f \in Deref(store[name]).finalizers :
                            IsDependantFinalizer(f)
            started == [wk[w] EXCEPT !.trace = @ \cup
                            (IF held THEN {"finalize", "finalize while held"}
                             ELSE {"finalize"})]
            finalizers == terraform.finalizers \ {TerraformFinalizer}
            released == ReleaseDependencies(store, terraform.name,
                                            terraform.spec.dependsOn)
            removed == fault = NoFault
                        /\ PatchFinalizersAllowed(released, name, finalizers)
        IN  /\ Faulted(fault)
            /\ store' = IF removed THEN WithFinalizers(released, name, finalizers)
                        ELSE IF fault = NoFault THEN released ELSE store
            /\ wk' = [wk EXCEPT ![w] =
                        IF removed
                        THEN Return(
                                [started EXCEPT
                                    !.terraform =
                                        Ptr([terraform EXCEPT
                                                !.finalizers = finalizers])],
                                Result(FALSE, 0, NoError))
                        ELSE afterFinalize(
                                [started EXCEPT
                                    !.trace = @ \cup {"finalize failed"}],
                                Result(TRUE, 0, "finalize failed"))]
    /\ UNCHANGED <<locks, pod, steps, insecureLocalRunner, fetch, sources, secrets, queue, ca, now, watch, attempts>>

\* tf_controller.go:329-336: r.finalize (the reconciler's finalize source
\* file) as the design describes it: destroy and converge, then release the
\* dependencies and remove the controlling finalizer (a merge patch from the
\* attempt's copy).  A failure returns; a success falls through to line 338.
\* The trace keeps whether a dependant still held the stored object.
finalize(w) ==
    /\ wk[w].pc = "finalize"
    /\ \E fault \in Faults({"destroy"}) :
        LET terraform == Deref(wk[w].terraform)
            name == wk[w].req
            held == /\ store[name] # Nil
                    /\ \E f \in Deref(store[name]).finalizers :
                            IsDependantFinalizer(f)
            started == [wk[w] EXCEPT !.trace = @ \cup
                            (IF held THEN {"finalize", "finalize while held"}
                             ELSE {"finalize"})]
            finalizers == terraform.finalizers \ {TerraformFinalizer}
            released == ReleaseDependencies(store, terraform.name,
                                            terraform.spec.dependsOn)
            removed == fault = NoFault
                        /\ PatchFinalizersAllowed(released, name, finalizers)
        IN  /\ Faulted(fault)
            /\ store' = IF removed THEN WithFinalizers(released, name, finalizers)
                        ELSE IF fault = NoFault THEN released ELSE store
            /\ wk' = [wk EXCEPT ![w] =
                        IF removed
                        THEN afterFinalize(
                                [started EXCEPT
                                    !.terraform =
                                        Ptr([terraform EXCEPT
                                                !.finalizers = finalizers])],
                                Result(FALSE, 0, NoError))
                        ELSE afterFinalize(
                                [started EXCEPT
                                    !.trace = @ \cup {"finalize failed"}],
                                Result(TRUE, 0, "finalize failed"))]
    /\ UNCHANGED <<locks, pod, steps, insecureLocalRunner, fetch, sources, secrets, queue, ca, now, watch, attempts>>

\* A pending plan that no revision clears.
KeepPendingPlan(w) ==
    /\ wk[w].pc = "pending"
    /\ wk' = Goto(w, "reconcile")
    /\ UNCHANGED <<locks, pod, steps, insecureLocalRunner, fetch, store, sources, secrets, queue, ca, now, watch, attempts, envSteps>>

\* tf_controller.go:338-348: a new revision without an intent to apply clears
\* the pending plan, so that the revision is planned afresh.
ClearPendingPlan(w) ==
    /\ wk[w].pc = "pending"
    /\ LET terraform == Deref(wk[w].terraform)
           clear == /\ Revision(wk[w]) # terraform.status.lastAttemptedRevision
                    /\ ~shouldApply(terraform)
           worker == [wk[w] EXCEPT
                        !.terraform =
                            Ptr([terraform EXCEPT
                                    !.status.plan.pending = EmptyString])]
       IN  \E fault \in Faults(IF clear THEN {"status"} ELSE {}) :
            LET next == PatchStatusOr(store, worker, fault,
                                      [worker EXCEPT !.pc = "reconcile"])
            IN  /\ Faulted(fault)
                /\ store' = IF clear THEN next[1] ELSE store
                /\ wk' = IF clear THEN [wk EXCEPT ![w] = next[2]]
                         ELSE Goto(w, "reconcile")
    /\ UNCHANGED <<locks, pod, steps, insecureLocalRunner, fetch, sources, secrets, queue, ca, now, watch, attempts>>

\* The manual gate left out: no pending plan stops the attempt.
neverWaitForManualApprove(terraform) == FALSE

\* tf_controller.go:350-355: a pending plan that the approval neither forces
\* nor names stops the attempt.
waitForManualApprove(terraform) ==
    /\ terraform.status.plan.pending # EmptyString
    /\ ~forceOrAutoApply(terraform)
    /\ ~shouldApply(terraform)

\* r.reconcile as called at tf_controller.go:359: the artifact of the source
\* is downloaded and verified first, a failure being answered as not ready
\* with the reason ArtifactFailed; the plan/apply cycle follows.
setupAndReconcile(terraform, artifact, plan, apply, t) ==
    IF downloadAsBytes(artifact, Served(artifact)).err # NoError
    THEN Reconciliation(
            TerraformNotReady(terraform, artifact.revision,
                ArtifactFailedReason,
                <<downloadAsBytes(artifact, Served(artifact)).err>>, t),
            downloadAsBytes(artifact, Served(artifact)).err, EmptyString)
    ELSE reconcile(terraform, artifact.revision, plan, apply, t)

\* A requeue directive after the cycle that does not stop for a pending plan.
reconcileResultWithoutStop(terraform, reconciledTerraform, reconcileErr) ==
    Result(FALSE,
           IF reconcileErr # NoError THEN GetRetryInterval(terraform)
           ELSE terraform.spec.interval,
           NoError)

\* tf_controller.go:366-399: the requeue directive after the cycle.
reconcileResult(terraform, reconciledTerraform, reconcileErr) ==
    IF reconcileErr # NoError
    THEN Result(FALSE, GetRetryInterval(terraform), NoError)
    ELSE IF /\ reconciledTerraform.status.plan.pending # EmptyString
            /\ ~forceOrAutoApply(reconciledTerraform)
    THEN Result(FALSE, 0, NoError)
    ELSE Result(FALSE, terraform.spec.interval, NoError)

\* tf_controller.go:357-399: the worker after the cycle answered r: the
\* status of r is persisted and the requeue directive follows from r.
afterReconcile(worker, r, patched) ==
    LET terraform == Deref(worker.terraform)
        failed == r.err \notin {NoError, DriftDetectedReason}
        ran == [worker EXCEPT
                    !.reconciledTerraform = Ptr(r.terraform),
                    !.invoked = Ptr(terraform),
                    !.applied = r.applied,
                    !.trace = @ \cup {"cycle", "download"} \cup
                        (IF r.err = "failed to verify artifact"
                         THEN {"artifact rejected"} ELSE {}) \cup
                        (IF failed THEN {"cycle failed"}
                         ELSE IF r.err # NoError THEN {"drift"} ELSE {})]
    IN  IF ~patched
        THEN Return(ran, Result(TRUE, 0, "unable to update status"))
        ELSE Return(IF failed
                    THEN event([ran EXCEPT !.patched = @ + 1], "error")
                    ELSE [ran EXCEPT !.patched = @ + 1],
                    reconcileResult(terraform, r.terraform, r.err))

\* The store and the Secrets after the cycle answered r for the object name.
storeAfterReconcile(name, r, patched) ==
    IF patched THEN patchStatus(store, name, r.terraform.status) ELSE store

secretsAfterReconcile(terraform, r) ==
    IF r.applied # EmptyString /\ terraform.spec.writeOutputsToSecret # Nil
    THEN secrets \cup {Deref(terraform.spec.writeOutputsToSecret)}
    ELSE secrets

\* The cycle answered r.
Reconciles(w, r, patched) ==
    /\ secrets' = secretsAfterReconcile(Deref(wk[w].terraform), r)
    /\ store' = storeAfterReconcile(wk[w].req, r, patched)
    /\ wk' = [wk EXCEPT ![w] = afterReconcile(@, r, patched)]

\* tf_controller.go:350-399: stop for a manual approval, or run the
\* plan/apply cycle on the runner, persist its status and answer with the
\* requeue directive.  An apply writes the output Secret the object declares.
ReconcileCycle(w) ==
    /\ wk[w].pc = "reconcile"
    /\ IF waitForManualApprove(Deref(wk[w].terraform))
       THEN /\ wk' = [wk EXCEPT ![w] =
                        Return([@ EXCEPT !.trace = @ \cup {"manual stop"}],
                               Result(FALSE, 0, NoError))]
            /\ UNCHANGED <<store, secrets, envSteps>>
       ELSE \E plan \in PlanOutcomes, apply \in ApplyOutcomes,
               fault \in Faults({"status"}) :
                /\ Faulted(fault)
                /\ Reconciles(w,
                        setupAndReconcile(Deref(wk[w].terraform),
                            Deref(Deref(wk[w].sourceObj).artifact),
                            plan, apply, now),
                        fault = NoFault /\ patchStatusAllowed(store, wk[w].req))
    /\ UNCHANGED <<locks, pod, steps, insecureLocalRunner, fetch, sources, queue, ca, now, watch, attempts>>

\* No runner pod is cleaned up.
NeverCleanupRunnerPod(in) == FALSE

\* terraform_types.go:809-815
GetAlwaysCleanupRunnerPod(in) ==
    IF in.alwaysCleanupRunnerPod = Nil THEN TRUE
    ELSE Deref(in.alwaysCleanupRunnerPod)

\* tf_controller.go:272-327: the deferred cleanup closes the connection and,
\* unless the controller runs an insecure local runner or the object keeps
\* its runner pod, polls for the deletion of the runner pod; a failure of the
\* poll is logged only.
Cleanup(w) ==
    /\ wk[w].pc = "cleanup"
    /\ wk' = [wk EXCEPT
                ![w].runner = FALSE,
                ![w].pc = "done",
                ![w].trace = @ \cup {"closeConn"} \cup
                    (IF /\ ~insecureLocalRunner
                        /\ GetAlwaysCleanupRunnerPod(Deref(wk[w].terraform).spec)
                     THEN {"poll"} ELSE {})]
    /\ UNCHANGED <<locks, pod, steps, insecureLocalRunner, fetch, store, sources, secrets, queue, ca, now, watch, attempts,
                   envSteps>>

\* Reconcile has returned: the controller queues the request again when the
\* result or the error asks for it, and marks its processing done
\* (controller-runtime; the controller is built at tf_controller.go:448-479).
Done(w) ==
    /\ wk[w].pc = "done"
    /\ LET result == Deref(wk[w].result)
           again == result.err # NoError \/ result.requeue
                        \/ result.requeueAfter > 0
       IN  queue' = QueueDone(IF again THEN QueueAdd(queue, wk[w].req) ELSE queue,
                              wk[w].req)
    /\ wk' = [wk EXCEPT ![w] = IdleWorker]
    /\ UNCHANGED <<locks, pod, steps, insecureLocalRunner, fetch, store, sources, secrets, ca, now, watch, attempts, envSteps>>

\* ------------------------------------------------------ the source watch
\* tf_controller.go:752-769: the index keys of a Terraform for sources of
\* kind, the namespace of the reference defaulting to the object's own.
IndexBy(kind, terraform) ==
    IF terraform.spec.sourceRef.kind = kind
    THEN LET namespace == IF terraform.spec.sourceRef.namespace # ""
                          THEN terraform.spec.sourceRef.namespace
                          ELSE terraform.namespace
         IN  {<<namespace, terraform.spec.sourceRef.name>>}
    ELSE {}

\* r.List with client.MatchingFields (tf_controller.go:555-557): the names of
\* the objects of st indexed under the source key <<kind, namespace, name>>.
List(st, key) ==
    {o \in Objs : /\ st[o] # Nil
                  /\ <<key[2], key[3]>> \in IndexBy(key[1], Deref(st[o]))}

\* The dependencies, among names, that the objects of st declare (the edges
\* of dependency.Sort's graph; a reference's namespace defaults to the
\* dependent's).
DependsOnNames(st, o) ==
    LET terraform == Deref(st[o])
    IN  {terraform.spec.dependsOn[i].name : i \in
            {j \in DOMAIN terraform.spec.dependsOn :
                LET ref == terraform.spec.dependsOn[j]
                IN  (IF ref.namespace = "" THEN terraform.namespace
                     ELSE ref.namespace) = Namespace}}

\* The names reachable from the set from over the edges of the objects dd.
RECURSIVE Reachable(_, _, _)
Reachable(st, dd, from) ==
    LET next == from \cup
                UNION {DependsOnNames(st, o) : o \in from \cap dd}
    IN  IF next = from THEN from ELSE Reachable(st, dd, next)

\* b is reached from a over at least one edge.
DependsOn(st, dd, a, b) ==
    a \in dd /\ b \in Reachable(st, dd, DependsOnNames(st, a))

\* A sort that leaves out the objects that depend on each other and orders
\* the others.
SortOutsideCycles(st, dd) ==
    LET free == {a \in dd : \A b \in dd :
                    ~(a # b /\ DependsOn(st, dd, a, b) /\ DependsOn(st, dd, b, a))}
    IN  [err |-> NoError,
         sorted |-> {seq \in [1..Cardinality(free) -> free] :
                        /\ \A i, j \in DOMAIN seq : i # j => seq[i] # seq[j]
                        /\ \A i, j \in DOMAIN seq :
                            DependsOn(st, dd, seq[i], seq[j]) => j < i}]

\* dependency.Sort as called at tf_controller.go:568-571: an error when two of
\* the objects dd depend on each other, otherwise the objects dd in one of the
\* orders that put every object after the ones it depends on.
Sort(st, dd) ==
    IF \E a, b \in dd : a # b /\ DependsOn(st, dd, a, b) /\ DependsOn(st, dd, b, a)
    THEN [err |-> "circular dependency", sorted |-> {}]
    ELSE [err |-> NoError,
          sorted |-> {seq \in [1..Cardinality(dd) -> dd] :
                        /\ \A i, j \in DOMAIN seq : i # j => seq[i] # seq[j]
                        /\ \A i, j \in DOMAIN seq :
                            DependsOn(st, dd, seq[i], seq[j]) => j < i}]

\* The mapping with the filter on lastAttemptedRevision left out: every
\* indexed object is requested.
requestsIgnoringRevision(st, key, obj, listErr) ==
    IF Deref(obj).artifact = Nil \/ listErr THEN {<<>>}
    ELSE LET sorting == Sort(st, List(st, key))
         IN  IF sorting.err # NoError THEN {<<>>} ELSE sorting.sorted

\* tf_controller.go:540-581: the requests a change of the source obj under key
\* may be mapped to (one per order the sort may answer with).
requestsForRevisionChangeOf(st, key, obj, listErr) ==
    IF Deref(obj).artifact = Nil THEN {<<>>}
    ELSE IF listErr THEN {<<>>}
    ELSE LET revision == Deref(Deref(obj).artifact).revision
             dd == {o \in List(st, key) :
                        revision # Deref(st[o]).status.lastAttemptedRevision}
             sorting == Sort(st, dd)
         IN  IF sorting.err # NoError THEN {<<>>} ELSE sorting.sorted

\* What the source may become next: its artifact appears, moves on to the
\* next revision, or goes away.
NextSources(src) ==
    IF src = NoSource THEN {}
    ELSE IF src = SourceWithoutArtifact THEN {SourceAt(Rev1)}
    ELSE IF src = SourceAt(Rev1) THEN {SourceAt(Rev2), SourceWithoutArtifact}
    ELSE {}

\* The source changes; the watch set up at tf_controller.go:452-456 maps the
\* event to requests and queues them in order.
SourceChanges ==
    /\ envSteps.env < MaxEnvSteps
    /\ \E obj \in NextSources(sources[SourceKey]) :
        \E fault \in Faults(IF Deref(obj).artifact = Nil THEN {} ELSE {"list"}) :
        \E reqs \in requestsForRevisionChangeOf(store, SourceKey, obj,
                                                fault = "list") :
            /\ envSteps' = [env |-> envSteps.env + 1,
                            faults |-> IF fault = NoFault THEN envSteps.faults
                                       ELSE envSteps.faults + 1]
            /\ sources' = [sources EXCEPT ![SourceKey] = obj]
            /\ queue' = QueueAddAll(queue, reqs)
            /\ watch' = Ptr([obj |-> obj, listErr |-> fault = "list",
                             requests |-> reqs])
    /\ UNCHANGED <<locks, pod, steps, insecureLocalRunner, fetch, store, secrets, wk, ca, now, attempts>>

\* ------------------------------------------------------------- the users
\* terraform_types.go:554-566
PlanId(revision) == GetPlanIdAndApproveMessage(revision, <<>>)[1]

\* A user sets spec.approvePlan of a manually approved object with a pending
\* plan to a plan id; the generation moves on and the object is queued
\* (GenerationChangedPredicate, tf_controller.go:449-451).
UserApproves(o) ==
    /\ EnvStep
    /\ store[o] # Nil
    /\ Deref(store[o]).spec.approvePlan = EmptyString
    /\ Deref(store[o]).status.plan.pending # EmptyString
    /\ \E id \in {PlanId(Rev1), PlanId(Rev2)} :
        store' = [store EXCEPT ![o] =
                    Ptr([Deref(@) EXCEPT !.spec.approvePlan = id,
                                         !.generation = @ + 1])]
    /\ queue' = QueueAdd(queue, o)
    /\ UNCHANGED <<locks, pod, steps, insecureLocalRunner, fetch, sources, secrets, wk, ca, now, watch, attempts>>

\* A user deletes an object: the deletion timestamp is set and the generation
\* moves on, or the object is gone when no finalizer holds it; the object is
\* queued either way.
UserDeletes(o) ==
    /\ EnvStep
    /\ store[o] # Nil
    /\ ~Deref(store[o]).deleting
    /\ store' = IF Deref(store[o]).finalizers = {}
                THEN [store EXCEPT ![o] = Nil]
                ELSE [store EXCEPT ![o] =
                        Ptr([Deref(@) EXCEPT !.deleting = TRUE,
                                             !.generation = @ + 1])]
    /\ queue' = QueueAdd(queue, o)
    /\ UNCHANGED <<locks, pod, steps, insecureLocalRunner, fetch, sources, secrets, wk, ca, now, watch, attempts>>

\* ------------------------------------------------------------------ Next
Next ==
    \/ RotatorReady
    \/ CAExpires
    \/ SourceChanges
    \/ \E o \in Objs : UserApproves(o)
    \/ \E o \in Objs : UserDeletes(o)
    \/ \E w \in Workers :
        \/ Dequeue(w)
        \/ ValidateCert(w)
        \/ RotatorReceives(w)
        \/ RotatorReplies(w)
        \/ FetchResource(w)
        \/ EnsureFinalizer(w)
        \/ ExamineDeletion(w)
        \/ ResolveSource(w)
        \/ GetDependency(w)
        \/ RegisterAndCheckDependency(w)
        \/ Progressing(w)
        \/ LookupOrCreateRunner(w)
        \/ finalize(w)
        \/ ClearPendingPlan(w)
        \/ ReconcileCycle(w)
        \/ Cleanup(w)
        \/ Done(w)

Spec == Init /\ [][Next]_vars

\* The rotator is a process that serves its trigger channel: it takes every
\* trigger sent to it and replies to every trigger it holds.
FairSpec ==
    /\ Spec
    /\ \A w \in Workers :
        WF_vars(RotatorReceives(w)) /\ WF_vars(RotatorReplies(w))

\* ------------------------------------------------- the download on its own
\* strings.ToUpper on hexadecimal digits: the checksum a provider could
\* advertise in upper case.
ToUpper(str) ==
    [i \in DOMAIN str |->
        CASE str[i] = "a" -> "A" [] str[i] = "b" -> "B" [] str[i] = "c" -> "C"
          [] str[i] = "d" -> "D" [] str[i] = "e" -> "E" [] str[i] = "f" -> "F"
          [] OTHER -> str[i]]

\* The checksums an artifact may advertise: either digest of a body, in lower
\* or in upper case, a strong digest cut to the legacy length, a legacy digest
\* one digit longer, and none.
Checksums ==
    {<<>>} \cup UNION {
        {Hex(sha1(b)), Hex(sha256(b)),
         ToUpper(Hex(sha1(b))), ToUpper(Hex(sha256(b))),
         SubSeq(Hex(sha256(b)), 1, LegacyChecksumLength),
         Hex(sha1(b)) \o <<"0">>} : b \in Bodies}

\* sourcev1.Artifact as downloadAsBytes reads it: its URL, which may be one
\* that cannot be made into a request, and its checksum.
DownloadArtifacts ==
    {[url |-> u, checksum |-> c] : u \in {"origin", "://"}, c \in Checksums}

\* http.StatusNotFound, a status other than 200.
StatusNotFound == 404

\* What r.httpClient.Do may answer: an error, or a response with a status and
\* a body whose reading may fail at any point.
Responses ==
    {[err |-> TRUE, statusCode |-> 0, body |-> Reader(<<>>, FALSE, 0)]}
    \cup {[err |-> FALSE, statusCode |-> c, body |-> Reader(b, e, n)] :
            c \in {StatusOK, StatusNotFound},
            <<b, e, n>> \in {t \in Bodies \X BOOLEAN \X (0..MaxBodyLen) :
                                /\ t[3] <= Len(t[1])
                                /\ ~t[2] => t[3] = Len(t[1])}}

\* A download is about to be made, of any artifact with any answer; the
\* controller is idle.
FetchInit ==
    /\ fetch \in {[artifact |-> a, resp |-> r, result |-> Nil] :
                    a \in DownloadArtifacts, r \in Responses}
    /\ store = [o \in Objs |-> Nil]
    /\ sources = [k \in {SourceKey} |-> NoSource]
    /\ secrets = {}
    /\ queue = [items |-> <<>>, dirty |-> {}, processing |-> {}]
    /\ wk = [w \in Workers |-> IdleWorker]
    /\ ca = [ready |-> FALSE, valid |-> TRUE, requests |-> {}]
    /\ now = 0
    /\ watch = Nil
    /\ attempts = 0
    /\ envSteps = [env |-> 0, faults |-> 0]
    /\ insecureLocalRunner = FALSE
    /\ steps = 0
    /\ pod = NoPoll
    /\ locks = <<>>

\* tf_controller.go:631-666: the call of downloadAsBytes.
Download ==
    /\ fetch.result = Nil
    /\ fetch' = [fetch EXCEPT
                    !.result = Ptr(downloadAsBytes(fetch.artifact, fetch.resp))]
    /\ UNCHANGED <<store, sources, secrets, queue, wk, ca, now, watch,
                   attempts, envSteps, insecureLocalRunner, steps, pod, locks>>

FetchSpec == FetchInit /\ [][Download]_vars

\* ------------------------------------------- the transitions on their own
\* How far the wall clock runs while the transitions are applied, and how
\* many of them are applied in one behaviour.
MaxClock == 2
MaxTransitions == 3
\* How many calls concerned with applying are made in one behaviour.
MaxApplySteps == 4
\* How many calls concerned with the state lock are made in one behaviour.
MaxLockSteps == 4

\* What the transition functions of terraform_types.go:472-685 make of
\* terraform at the wall clock reading t, for the revisions and messages given.
Transitions(terraform, revisions, messages, t) ==
    UNION {
        {TerraformProgressing(terraform, message, t),
         TerraformNotReady(terraform, revision, TFExecPlanFailedReason, message, t),
         TerraformPlannedWithChanges(terraform, revision, TRUE, message, t),
         TerraformPlannedWithChanges(terraform, revision, FALSE, message, t),
         TerraformPlannedNoChanges(terraform, revision, message, t),
         TerraformPostPlanningWebhookFailed(terraform, revision, message, t),
         TerraformApplying(terraform, revision, message, t),
         TerraformApplied(terraform, revision, message, FALSE, <<>>, t),
         TerraformAppliedFailResetPlanAndNotReady(terraform, revision,
            TFExecApplyFailedReason, message, t),
         TerraformDriftDetected(terraform, revision, DriftDetectedReason,
            message, t),
         TerraformNoDrift(terraform, revision, "NoDrift", message, t),
         TerraformOutputsWritten(terraform, revision, message, t)} :
        revision \in revisions, message \in messages}

\* One object x in manual mode that nothing has reconciled yet.
StatusInit ==
    /\ store = Single(EmptyString)
    /\ now = 0
    /\ sources = [k \in {SourceKey} |-> NoSource]
    /\ secrets = {}
    /\ queue = [items |-> <<>>, dirty |-> {}, processing |-> {}]
    /\ wk = [w \in Workers |-> IdleWorker]
    /\ ca = [ready |-> FALSE, valid |-> TRUE, requests |-> {}]
    /\ watch = Nil
    /\ attempts = 0
    /\ envSteps = [env |-> 0, faults |-> 0]
    /\ fetch = Nil
    /\ insecureLocalRunner = FALSE
    /\ steps = 0
    /\ pod = NoPoll
    /\ locks = <<>>

\* time.Now() moves on between two calls.
Tick ==
    /\ now < MaxClock
    /\ now' = now + 1
    /\ UNCHANGED <<store, steps>>

\* A transition function is applied to x with a short message.
Transition ==
    /\ \E next \in Transitions(Deref(store["x"]), {Rev1, Rev2}, {<<"m">>}, now) :
        store' = [store EXCEPT !["x"] = Ptr(next)]
    /\ steps < MaxTransitions
    /\ steps' = steps + 1
    /\ UNCHANGED now

\* tf_controller.go:343: the orchestrator clears the pending plan.
ClearPending ==
    /\ store' = [store EXCEPT !["x"] =
                    Ptr([Deref(@) EXCEPT !.status.plan.pending = EmptyString])]
    /\ UNCHANGED <<now, steps>>

\* The user copies the short plan id of the approval message, or the plan id
\* that is pending, into spec.approvePlan.
Approve ==
    /\ Deref(store["x"]).status.plan.pending # EmptyString
    /\ \E id \in {Deref(store["x"]).status.plan.pending,
                   GetPlanIdAndApproveMessage(
                        Deref(store["x"]).status.lastPlannedRevision, <<>>)[3]} :
        store' = [store EXCEPT !["x"] =
                    Ptr([Deref(@) EXCEPT !.spec.approvePlan = id])]
    /\ UNCHANGED <<now, steps>>

\* ------------------------------------------------- one call, any arguments
\* Revisions without a slash, with 3, 9, 10 and 11 characters after it, and
\* with two slashes; the empty revision.
CallRevisions ==
    {EmptyString,
     <<"m", "a", "i", "n">>,
     <<"m", "/", "a", "b", "c">>,
     <<"m", "/", "a", "b", "c", "d", "e", "f", "a", "b", "c">>,
     <<"m", "/", "a", "b", "c", "d", "e", "f", "a", "b", "c", "d">>,
     Rev1,
     <<"a", "/", "b", "/", "c", "d", "e", "f", "a", "b", "c", "d", "e", "f">>}

\* A message of n characters.
Filled(n) == [i \in 1..n |-> "a"]

\* Messages of one character, of the greatest length a condition is meant to
\* hold, and of one character more.
CallMessages ==
    {<<"m">>, Filled(MaxConditionMessageLength),
     Filled(MaxConditionMessageLength + 1)}

\* One transition function is called on the empty status.
Call ==
    /\ steps = 0
    /\ \E next \in Transitions(Deref(store["x"]), CallRevisions, CallMessages,
                                now) :
        store' = [store EXCEPT !["x"] = Ptr(next)]
    /\ steps' = 1
    /\ UNCHANGED now

CallSpec ==
    /\ StatusInit
    /\ [][/\ Call
           /\ UNCHANGED <<sources, secrets, queue, wk, ca, watch, attempts,
                          envSteps, fetch, insecureLocalRunner, pod, locks>>]_vars

\* ------------------------------------------------- the cleanup on its own
\* tf_controller.go:292-293, in seconds
interval == 5
timeout == 120

\* A poll condition that never reports the pod gone.
conditionNeverDone(got, deleted) == [done |-> FALSE, err |-> NoError]

\* tf_controller.go:296-317: the condition of the poll, for the answer of
\* r.Get ("ok", "not found" or "error") and that of cli.Delete ("ok" or
\* "error"), which is called unless the pod was not found.  The error
\* returned at 317 is the one of r.Get.
condition(got, deleted) ==
    IF got = "not found" THEN [done |-> TRUE, err |-> NoError]
    ELSE IF deleted = "error" THEN [done |-> FALSE, err |-> NoError]
    ELSE [done |-> FALSE,
          err |-> IF got = "error" THEN "get failed" ELSE NoError]

\* The results an attempt may be returning when its cleanup starts.
CleanupResults ==
    {Result(FALSE, 0, NoError), Result(FALSE, 60, NoError),
     Result(FALSE, 30, NoError), Result(TRUE, 0, "unable to update status"),
     Result(FALSE, 0, "finalize failed")}

\* Worker 1 is about to run the deferred cleanup of an attempt on x, whose
\* runner pod exists or is gone already.
PollInit ==
    /\ \E always \in {Nil, Ptr(TRUE), Ptr(FALSE)} :
        store = [Single(EmptyString) EXCEPT
                    !["x"] = Ptr([Deref(@) EXCEPT
                                    !.spec.alwaysCleanupRunnerPod = always])]
    /\ \E result \in CleanupResults :
        wk = [w \in Workers |->
                IF w = 1
                THEN [IdleWorker EXCEPT !.pc = "cleanup", !.req = "x",
                                        !.runner = TRUE,
                                        !.fetched = store["x"],
                                        !.terraform = store["x"],
                                        !.result = Ptr(result)]
                ELSE IdleWorker]
    /\ insecureLocalRunner \in BOOLEAN
    /\ pod \in {[NoPoll EXCEPT !.exists = exists] : exists \in BOOLEAN}
    /\ locks = <<>>
    /\ now = 0
    /\ sources = [k \in {SourceKey} |-> SourceAt(Rev1)]
    /\ secrets = {}
    /\ queue = [items |-> <<>>, dirty |-> {}, processing |-> {"x"}]
    /\ ca = [ready |-> TRUE, valid |-> TRUE, requests |-> {}]
    /\ watch = Nil
    /\ attempts = 1
    /\ envSteps = [env |-> 0, faults |-> 0]
    /\ fetch = Nil
    /\ steps = 0

\* tf_controller.go:272-294: the deferred function closes the connection,
\* returns for an insecure local runner or an object that keeps its runner
\* pod, and otherwise starts the poll.
CleanupStart(w) ==
    /\ wk[w].pc = "cleanup"
    /\ wk' = [wk EXCEPT
                ![w].runner = FALSE,
                ![w].trace = @ \cup {"closeConn"},
                ![w].pc =
                    IF /\ ~insecureLocalRunner
                       /\ GetAlwaysCleanupRunnerPod(Deref(wk[w].terraform).spec)
                    THEN "poll" ELSE "done"]
    /\ UNCHANGED pod

\* tf_controller.go:295-325: wait.PollImmediate calls the condition at once
\* and then on every tick of interval until it reports done, returns an error
\* or timeout has passed; the tick and the timer that fall together at
\* timeout are taken in either order.  A Delete of the pod that r.Get did not
\* return has no name to send and fails.
Poll(w) ==
    /\ wk[w].pc = "poll"
    /\ \E got \in (IF pod.exists THEN {"ok"} ELSE {"not found"}) \cup {"error"},
          deleted \in {"ok", "error"}, lastTick \in BOOLEAN :
        LET answer == condition(got, deleted)
            ended == answer.done \/ answer.err # NoError
            timedOut ==
                \/ pod.elapsed + interval > timeout
                \/ pod.elapsed + interval = timeout /\ ~lastTick
        IN  /\ got = "error" => deleted = "error"
            /\ pod' = [pod EXCEPT
                        !.calls = @ + 1,
                        !.got = got,
                        !.deletes = IF got = "not found" THEN @ ELSE @ + 1,
                        !.elapsed = IF ended \/ timedOut THEN @ ELSE @ + interval,
                        !.err = IF ended THEN answer.err
                                ELSE IF timedOut THEN "timed out waiting for the condition"
                                ELSE @]
            /\ wk' = [wk EXCEPT ![w].pc = IF ended \/ timedOut THEN "done" ELSE @]

\* The runner pod terminates.
PodGoes ==
    /\ pod.exists
    /\ pod' = [pod EXCEPT !.exists = FALSE]
    /\ UNCHANGED wk

PollNext ==
    /\ \/ \E w \in Workers : CleanupStart(w) \/ Poll(w)
       \/ PodGoes
    /\ UNCHANGED <<store, sources, secrets, queue, ca, now, watch, attempts,
                   envSteps, fetch, insecureLocalRunner, steps, locks>>

\* The deferred function runs and the timers of the poll fire.
PollSpec ==
    /\ PollInit
    /\ [][PollNext]_vars
    /\ \A w \in Workers :
        WF_vars(CleanupStart(w) /\ UNCHANGED <<store, sources, secrets, queue, ca, now, watch, attempts, envSteps, fetch, insecureLocalRunner, steps, locks>>)
        /\ WF_vars(Poll(w) /\ UNCHANGED <<store, sources, secrets, queue, ca, now, watch, attempts, envSteps, fetch, insecureLocalRunner, steps, locks>>)

\* ---------------------------------------------------- plans and applies
\* The inventories an apply may report.
ApplyEntries == {<<>>, <<"r1">>, <<"r2">>}

\* A call of one of the transition functions around an apply, at the first
\* revision.
ApplyTransitions(terraform, t) ==
    {TerraformPlannedWithChanges(terraform, Rev1, FALSE, <<"m">>, t),
     TerraformDriftDetected(terraform, Rev1, DriftDetectedReason, <<"m">>, t),
     TerraformApplying(terraform, Rev1, <<"m">>, t),
     TerraformAppliedFailResetPlanAndNotReady(terraform, Rev1,
        TFExecApplyFailedReason, <<"m">>, t)}
    \cup {TerraformApplied(terraform, Rev1, <<"m">>, isDestroyApply, entries, t) :
            isDestroyApply \in BOOLEAN, entries \in ApplyEntries}

ApplyStep ==
    /\ steps < MaxApplySteps
    /\ \E next \in ApplyTransitions(Deref(store["x"]), now) :
        store' = [store EXCEPT !["x"] = Ptr(next)]
    /\ steps' = steps + 1
    /\ UNCHANGED now

ApplySpec ==
    /\ StatusInit
    /\ [][/\ (Tick \/ ApplyStep)
           /\ UNCHANGED <<sources, secrets, queue, wk, ca, watch, attempts,
                          envSteps, fetch, insecureLocalRunner, pod, locks>>]_vars

\* -------------------------------------------------------- the state lock
\* The lock ids a caller may report: none, or one of two.
LockIds == {EmptyString, <<"l", "1">>, <<"l", "2">>}

\* A call of TerraformStateLocked or of TerraformForceUnlock; the id that was
\* pending before the call is remembered.
LockStep ==
    /\ steps < MaxLockSteps
    /\ \E next \in {TerraformStateLocked(Deref(store["x"]), lockID, <<"m">>, now) :
                        lockID \in LockIds}
                    \cup {TerraformForceUnlock(Deref(store["x"]), <<"m">>, now)} :
        store' = [store EXCEPT !["x"] = Ptr(next)]
    /\ locks' = Append(locks, Deref(store["x"]).status.lock.pending)
    /\ steps' = steps + 1
    /\ UNCHANGED now

LockSpec ==
    /\ StatusInit
    /\ [][/\ ((Tick /\ UNCHANGED locks) \/ LockStep)
           /\ UNCHANGED <<sources, secrets, queue, wk, ca, watch, attempts,
                          envSteps, fetch, insecureLocalRunner, pod>>]_vars

\* ------------------------------------------- the source watch on its own
\* The dependencies an object o may declare: none, one of the other objects,
\* or both in either order.
DependsOnChoices(o) ==
    {<<>>}
    \cup {<<DependsOnRef("", p)>> : p \in Objs \ {o}}
    \cup UNION {{<<DependsOnRef("", p), DependsOnRef("", q)>> :
                    q \in Objs \ {o, p}} : p \in Objs \ {o}}

\* The stores the watch may read: three objects of the source, each with its
\* dependencies and last attempted at no revision or at the second.
WatchStores ==
    {[o \in Objs |->
        Ptr([NewTerraform(o, TerraformSpec(ApprovePlanAutoValue, deps[o], "",
                                           Nil, Nil))
             EXCEPT !.status.lastAttemptedRevision = revisions[o]])] :
        deps \in {f \in [Objs -> UNION {DependsOnChoices(o) : o \in Objs}] :
                    \A o \in Objs : f[o] \in DependsOnChoices(o)},
        revisions \in [Objs -> {EmptyString, Rev2}]}

WatchInit ==
    /\ store \in WatchStores
    /\ sources = [k \in {SourceKey} |-> SourceAt(Rev1)]
    /\ now = 0
    /\ secrets = {}
    /\ queue = [items |-> <<>>, dirty |-> {}, processing |-> {}]
    /\ wk = [w \in Workers |-> IdleWorker]
    /\ ca = [ready |-> FALSE, valid |-> TRUE, requests |-> {}]
    /\ watch = Nil
    /\ attempts = 0
    /\ envSteps = [env |-> 0, faults |-> 0]
    /\ fetch = Nil
    /\ insecureLocalRunner = FALSE
    /\ steps = 0
    /\ pod = NoPoll
    /\ locks = <<>>

\* The source changes once and the event is mapped to requests.
WatchSpec == WatchInit /\ [][SourceChanges]_vars

StatusSpec ==
    /\ StatusInit
    /\ [][/\ (Tick \/ Transition \/ ClearPending \/ Approve)
           /\ UNCHANGED <<sources, secrets, queue, wk, ca, watch, attempts,
                          envSteps, fetch, insecureLocalRunner, pod, locks>>]_vars

\* ============================================================ properties
\* The Ready condition of status has the given status and reason.
ReadyIs(status, conditionStatus, reason) ==
    LET ready == FindStatusCondition(status.conditions, ReadyCondition)
    IN  /\ ready # Nil
        /\ Deref(ready).status = conditionStatus
        /\ Deref(ready).reason = reason

\* The approval of terraform lets the plan id be applied.
Approves(terraform, id) ==
    \/ terraform.spec.force
    \/ terraform.spec.approvePlan = ApprovePlanAutoValue
    \/ terraform.spec.approvePlan = id

DependencyReady(tf) ==
    /\ Len(tf.status.conditions) > 0
    /\ tf.status.observedGeneration = tf.generation
    /\ IsStatusConditionTrue(tf.status.conditions, ReadyCondition)

\* C2: dependency readiness gate.  An attempt on an object that is not being
\* deleted and declares dependencies has a runner or has run the cycle only
\* if it fetched every dependency and saw each with a condition, with
\* observedGeneration = generation and with Ready True; and an attempt that
\* saw a dependency with observedGeneration # generation has marked its object
\* not ready (DependencyNotReady) and returns without a runner.
C2_DependencyGate ==
    \A w \in Workers :
        wk[w].terraform # Nil =>
            LET terraform == Deref(wk[w].terraform)
                deps == wk[w].deps
            IN  /\ ( /\ ~terraform.deleting
                     /\ Len(terraform.spec.dependsOn) > 0
                     /\ wk[w].runner \/ {"runner", "cycle"} \cap wk[w].trace # {} )
                    => /\ Len(deps) = Len(terraform.spec.dependsOn)
                       /\ \A i \in DOMAIN deps : DependencyReady(deps[i])
                /\ \A i \in DOMAIN deps :
                    deps[i].status.observedGeneration # deps[i].generation
                    => /\ ReadyIs(terraform.status, ConditionFalse,
                                  DependencyNotReadyReason)
                       /\ wk[w].pc = "done"
                       /\ ~wk[w].runner
                       /\ {"runner", "cycle"} \cap wk[w].trace = {}

\* C2 happens: an attempt ends not ready on a dependency that carries its
\* finalizer and whose Ready condition is True, but whose generation moved on.
C2_Witness ==
    \E w \in Workers :
        /\ wk[w].pc = "done"
        /\ \E i \in DOMAIN wk[w].deps :
            LET tf == wk[w].deps[i]
            IN  /\ tf.status.observedGeneration # tf.generation
                /\ IsStatusConditionTrue(tf.status.conditions, ReadyCondition)
                /\ DependantFinalizer(wk[w].req) \in tf.finalizers

\* The source key a Terraform refers to, the namespace of the reference
\* defaulting to the object's own.
SourceOf(terraform) ==
    <<terraform.spec.sourceRef.kind,
      IF terraform.spec.sourceRef.namespace = "" THEN terraform.namespace
      ELSE terraform.spec.sourceRef.namespace,
      terraform.spec.sourceRef.name>>

\* C3: same-source revision ordering.  An attempt at revision R that passed
\* the dependency check saw every dependency that refers to the same source
\* (an empty source namespace standing for the object's own) with
\* lastAppliedRevision or lastPlannedRevision equal to R.
C3_SameSourceRevisionOrdering ==
    \A w \in Workers :
        ( /\ wk[w].terraform # Nil
          /\ wk[w].pc \in {"progressing", "runner"} ) =>
            \A i \in DOMAIN wk[w].deps :
                LET tf == wk[w].deps[i]
                IN  SourceOf(tf) = SourceOf(Deref(wk[w].terraform))
                    => Revision(wk[w]) \in {tf.status.lastAppliedRevision,
                                            tf.status.lastPlannedRevision}

\* A finalizer of the set names a dependant.
HeldByDependant(finalizers) ==
    \E f \in finalizers : f[1] = TFDependencyOfPrefix

\* What every attempt that saw its object under deletion and held by a
\* dependant has done: marked it not ready and returned, without calling for
\* the source, a runner, the finalize sequence or the cycle.
BlockedAttemptStops(w) ==
    /\ ReadyIs(Deref(wk[w].terraform).status, ConditionFalse,
               DeletionBlockedByDependants)
    /\ wk[w].pc = "done"
    /\ ~wk[w].runner
    /\ wk[w].trace \cap {"get source", "runner", "finalize", "cycle"} = {}

\* The attempt of w persisted the blocked deletion and asks for a requeue
\* after the retry interval.
BlockedAttemptPersisted(w) ==
    /\ wk[w].result =
        Ptr(Result(FALSE, GetRetryInterval(Deref(wk[w].terraform)), NoError))
    /\ store[wk[w].req] # Nil
    /\ ReadyIs(Deref(store[wk[w].req]).status, ConditionFalse,
               DeletionBlockedByDependants)

\* The attempt of w saw its object under deletion and held by a dependant.
SawBlockedDeletion(w) ==
    /\ "examine deletion" \in wk[w].trace
    /\ Deref(wk[w].terraform).deleting
    /\ HeldByDependant(Deref(wk[w].terraform).finalizers)

\* C4 (as amended): an attempt that sees its object under deletion with a
\* dependant's finalizer marks it not ready (deletion blocked) and stops
\* without calling for the source, a runner or the finalize sequence; it
\* returns a requeue after the retry interval with the condition stored, or,
\* when the status patch failed, an immediate requeue with the error.
C4_DeletionBlocked ==
    \A w \in Workers :
        SawBlockedDeletion(w) =>
            /\ BlockedAttemptStops(w)
            /\ \/ BlockedAttemptPersisted(w)
               \/ wk[w].result = Ptr(Result(TRUE, 0, "unable to update status"))

\* C4 as stated: every such attempt stores the condition and returns a
\* requeue after the retry interval.
C4_AsStated ==
    \A w \in Workers :
        SawBlockedDeletion(w) =>
            BlockedAttemptStops(w) /\ BlockedAttemptPersisted(w)

\* C4 happens: a blocked deletion is stored and retried after the interval.
C4_Witness ==
    \E w \in Workers : SawBlockedDeletion(w) /\ BlockedAttemptPersisted(w)

\* C5: no attempt starts the finalize sequence of its object while a
\* dependant's finalizer is on the stored object.
C5_FinalizeNeverWhileHeld ==
    \A w \in Workers : "finalize while held" \notin wk[w].trace

\* C5 happens: the finalize sequence of d starts while the attempt of a
\* dependant, which fetched d, was refused its finalizer.
C5_Witness ==
    \E w1, w2 \in Workers :
        /\ "finalize" \in wk[w1].trace
        /\ wk[w1].req = "d"
        /\ wk[w2].req # "d"
        /\ "dependency not ready" \in wk[w2].trace
        /\ Len(wk[w2].deps) > 0
        /\ DependantFinalizer(wk[w2].req) \notin wk[w2].deps[1].finalizers

\* C6: a dependency that answered an attempt's registration with the
\* dependant's finalizer on it keeps that finalizer, whoever else writes its
\* finalizers.
C6_BackReferencesKept ==
    \A w \in Workers :
        \A i \in DOMAIN wk[w].deps :
            LET tf == wk[w].deps[i]
            IN  ( /\ DependantFinalizer(wk[w].req) \in tf.finalizers
                  /\ store[tf.name] # Nil )
                => DependantFinalizer(wk[w].req)
                        \in Deref(store[tf.name]).finalizers

\* The objects of the store that refer to the source under key and were not
\* last attempted at revision.
Affected(key, revision) ==
    {o \in Objs : /\ store[o] # Nil
                  /\ SourceOf(Deref(store[o])) = key
                  /\ Deref(store[o]).status.lastAttemptedRevision # revision}

\* requests holds exactly the objects of the set affected, each once, every
\* object after the dependencies it declares among them.
ExactlyInOrder(requests, affected) ==
    /\ {requests[i] : i \in DOMAIN requests} = affected
    /\ Len(requests) = Cardinality(affected)
    /\ \A i, j \in DOMAIN requests :
        requests[j] \in DependsOnNames(store, requests[i]) => j < i

\* Two of the objects of the set affected depend on each other.
Circularity(affected) ==
    \E a, b \in affected :
        a # b /\ DependsOn(store, affected, a, b) /\ DependsOn(store, affected, b, a)

\* C7 (as amended): a change of the watched source to an artifact is mapped
\* to exactly the objects indexed under the source whose lastAttemptedRevision
\* differs from the new revision, each once, dependencies first, provided the
\* list succeeds and no two of these objects depend on each other; otherwise,
\* and for a source without an artifact, to no request.
C7_RequestsForRevisionChange ==
    [][sources' # sources =>
        LET mapped == Deref(watch')
            obj == Deref(mapped.obj)
        IN  IF obj.artifact = Nil \/ mapped.listErr
                \/ Circularity(Affected(SourceKey, Deref(obj.artifact).revision))
            THEN mapped.requests = <<>>
            ELSE ExactlyInOrder(mapped.requests,
                    Affected(SourceKey, Deref(obj.artifact).revision))]_vars

\* C7 as stated, for the changes whose list succeeds: whenever the source has
\* an artifact the requests are exactly the affected objects in dependency
\* order.
C7_AsStated ==
    [][(sources' # sources /\ ~Deref(watch').listErr) =>
        LET mapped == Deref(watch')
            obj == Deref(mapped.obj)
        IN  IF obj.artifact = Nil
            THEN mapped.requests = <<>>
            ELSE ExactlyInOrder(mapped.requests,
                    Affected(SourceKey, Deref(obj.artifact).revision))]_vars

\* C7 happens: a change is mapped to two requests or more while an object
\* indexed under the source, already attempted at the revision, is left out.
C7_Witness ==
    /\ watch # Nil
    /\ Len(Deref(watch).requests) >= 2
    /\ \E o \in Objs :
        /\ store[o] # Nil
        /\ SourceOf(Deref(store[o])) = SourceKey
        /\ \A i \in DOMAIN Deref(watch).requests : Deref(watch).requests[i] # o

\* C8: no attempt calls for a runner while the CA is invalid, and an attempt
\* that found the CA invalid calls for a runner only after a rotation that
\* succeeded.
C8_NoStaleTrustRoot ==
    \A w \in Workers :
        /\ "stale runner" \notin wk[w].trace
        /\ {"ca invalid at start", "runner"} \subseteq wk[w].trace
            => "rotated" \in wk[w].trace

\* C9: no two attempts are in flight for the same object, and no two workers
\* hold a runner for the same object.
C9_OneAttemptPerObject ==
    /\ \A w1, w2 \in Workers :
        (w1 # w2 /\ wk[w1].pc # "idle" /\ wk[w2].pc # "idle")
            => wk[w1].req # wk[w2].req
    /\ \A o \in Objs :
        Cardinality({w \in Workers : wk[w].runner /\ wk[w].req = o}) <= 1

\* C9 happens: two workers hold runners at once while the object of one of
\* them waits to be queued again.
C9_Witness ==
    \E w1, w2 \in Workers :
        /\ w1 # w2
        /\ wk[w1].runner
        /\ wk[w2].runner
        /\ wk[w1].req \in queue.dirty

\* The reasons of the Ready condition that describe the failures an attempt
\* may have decided, by the mark the failure leaves in the trace.
FailureReasons(mark) ==
    IF mark = "deletion blocked" THEN {DeletionBlockedByDependants}
    ELSE IF mark = "source not ready" THEN {ArtifactFailedReason}
    ELSE IF mark = "dependency not ready" THEN {DependencyNotReadyReason}
    ELSE IF mark = "cycle failed"
    THEN {ArtifactFailedReason, TFExecPlanFailedReason,
          TFExecApplyFailedReason}
    ELSE {DeletionBlockedByDependants, ArtifactFailedReason,
          DependencyNotReadyReason, TFExecPlanFailedReason,
          TFExecApplyFailedReason}

\* The failures that are recorded, and those that are returned as errors.
RecordedFailures ==
    {"deletion blocked", "source not ready", "dependency not ready",
     "cycle failed"}
ReturnedFailures == {"source error", "runner failed"}

\* The stored Ready condition of the object of w is False with one of the
\* reasons of the failure mark.
FailureStored(w, mark) ==
    /\ store[wk[w].req] # Nil
    /\ \E reason \in FailureReasons(mark) :
        ReadyIs(Deref(store[wk[w].req]).status, ConditionFalse, reason)

\* C10 (as amended): an attempt that decided a blocked deletion, a missing
\* source or artifact, an unmet dependency or a plan/apply error, and returns
\* without an error, has stored Ready False with the reason of that failure
\* and asks for a requeue after the retry interval.  (A transient or
\* unsupported-kind source error, a runner acquisition failure and a failed
\* status patch are returned as errors, with no condition stored.)
C10_FailureStoredBeforeRequeue ==
    \A w \in Workers :
        \A mark \in RecordedFailures \cap wk[w].trace :
            (wk[w].result # Nil /\ Deref(wk[w].result).err = NoError)
                => /\ FailureStored(w, mark)
                   /\ wk[w].result =
                        Ptr(Result(FALSE,
                                   GetRetryInterval(Deref(wk[w].terraform)),
                                   NoError))

\* C10 as stated, for the attempts none of whose status patches failed: every
\* attempt that returns after a failure, of whatever kind, has stored Ready
\* False with a reason of that failure.
C10_AsStated ==
    \A w \in Workers :
        \A mark \in (RecordedFailures \cup ReturnedFailures) \cap wk[w].trace :
            ( /\ wk[w].result # Nil
              /\ Deref(wk[w].result).err # "unable to update status" )
                => FailureStored(w, mark)

\* C10 happens: an attempt whose plan/apply cycle failed returns with the
\* failure stored.
C10_Witness ==
    \E w \in Workers :
        /\ "cycle failed" \in wk[w].trace
        /\ wk[w].result # Nil
        /\ Deref(wk[w].result).err = NoError
        /\ FailureStored(w, "cycle failed")

\* C11: artifact verification.  downloadAsBytes returns a buffer exactly when
\* the request was made and answered with status 200, the body was read whole
\* and the digest of the whole body, in lower-case hexadecimal, equals the
\* advertised checksum, the digest being SHA-1 when the checksum has length 40
\* and SHA-256 for every other length; the buffer then holds the body, and in
\* every other case an error is returned with no buffer.
C11_ArtifactVerification ==
    fetch.result # Nil =>
        LET artifact == fetch.artifact
            resp == fetch.resp
            result == Deref(fetch.result)
            body == resp.body.body
            digest == IF Len(artifact.checksum) = 40 THEN Hex(sha1(body))
                      ELSE Hex(sha256(body))
            accepted == /\ artifact.url # "://"
                        /\ ~resp.err
                        /\ resp.statusCode = 200
                        /\ ~resp.body.err
                        /\ digest = artifact.checksum
        IN  /\ accepted <=> result.buf # Nil
            /\ result.buf # Nil => Deref(result.buf) = body
            /\ result.buf = Nil <=> result.err # NoError

\* C11 happens: a body answered with status 200 is rejected because the
\* advertised checksum is its digest in upper case.
C11_Witness ==
    /\ fetch.result # Nil
    /\ fetch.artifact.url = "origin"
    /\ ~fetch.resp.err
    /\ fetch.resp.statusCode = StatusOK
    /\ ~fetch.resp.body.err
    /\ fetch.artifact.checksum = ToUpper(Hex(sha1(fetch.resp.body.body)))
    /\ Deref(fetch.result).buf = Nil

\* status records that the artifact at revision was rejected by its checksum.
Rejected(status, revision) ==
    /\ ReadyIs(status, ConditionFalse, ArtifactFailedReason)
    /\ status.lastAttemptedRevision = revision
    /\ Deref(FindStatusCondition(status.conditions, ReadyCondition)).message
            = <<"failed to verify artifact">>

\* C12: no attempt downloads the artifact at a revision that the object, as
\* the attempt fetched it, records as rejected by its checksum at that same
\* revision.
C12_NoRetryOfRejectedArtifact ==
    \A w \in Workers :
        "download" \in wk[w].trace
            => ~Rejected(Deref(wk[w].fetched).status, Revision(wk[w]))

\* The attempt of w found no source or no artifact: the object is not ready
\* (ArtifactFailed), the attempt has returned, and no runner was called for.
SourceMissingStops(w) ==
    /\ ReadyIs(Deref(wk[w].terraform).status, ConditionFalse,
               ArtifactFailedReason)
    /\ wk[w].pc = "done"
    /\ ~wk[w].runner
    /\ wk[w].trace \cap {"runner", "cycle", "download"} = {}

\* The attempt of w stored the missing source and returns a requeue after
\* spec.retryInterval when it is set, after spec.interval otherwise, without
\* an error.
SourceMissingPersisted(w) ==
    LET spec == Deref(wk[w].terraform).spec
    IN  /\ wk[w].result =
            Ptr(Result(FALSE,
                       IF spec.retryInterval # Nil
                       THEN Deref(spec.retryInterval) ELSE spec.interval,
                       NoError))
        /\ store[wk[w].req] # Nil
        /\ ReadyIs(Deref(store[wk[w].req]).status, ConditionFalse,
                   ArtifactFailedReason)

\* The attempt of w met another error of the source lookup: it returns an
\* immediate requeue with the error, without a runner.
SourceErrorReturned(w) ==
    /\ Deref(wk[w].result).requeue
    /\ Deref(wk[w].result).requeueAfter = 0
    /\ Deref(wk[w].result).err \in
            {"unable to get source", "source kind not supported"}
    /\ ~wk[w].runner
    /\ wk[w].trace \cap {"runner", "cycle", "download"} = {}

\* C13: an attempt that finds the source missing, or without an artifact,
\* marks the object not ready (ArtifactFailed) and acquires no runner; it
\* stores the condition and returns a requeue after the retry interval
\* without an error, or, when the status patch failed, an immediate requeue
\* with the patch error and nothing stored.  Any other source lookup error
\* returns an immediate requeue with the error.
C13_SourceMissing ==
    \A w \in Workers :
        /\ "source not ready" \in wk[w].trace =>
            /\ SourceMissingStops(w)
            /\ \/ SourceMissingPersisted(w)
               \/ wk[w].result = Ptr(Result(TRUE, 0, "unable to update status"))
        /\ "source error" \in wk[w].trace => SourceErrorReturned(w)

\* C13 as stated: every attempt that finds the source or its artifact missing
\* stores the condition and returns a requeue after the retry interval.
C13_AsStated ==
    \A w \in Workers :
        /\ "source not ready" \in wk[w].trace =>
            SourceMissingStops(w) /\ SourceMissingPersisted(w)
        /\ "source error" \in wk[w].trace => SourceErrorReturned(w)

\* C13 happens: an object without spec.retryInterval, whose source or
\* artifact is missing, is stored as not ready and retried after spec.interval.
C13_Witness ==
    \E w \in Workers :
        /\ "source not ready" \in wk[w].trace
        /\ Deref(wk[w].terraform).spec.retryInterval = Nil
        /\ wk[w].sourceObj = Nil
        /\ SourceMissingPersisted(w)

\* The attempt of w failed its dependency check: the object is not ready
\* (DependencyNotReady), the attempt has returned without a runner, and the
\* check stopped at the failing dependency: those before it passed and none
\* after it was fetched.
DependencyCheckStops(w) ==
    /\ ReadyIs(Deref(wk[w].terraform).status, ConditionFalse,
               DependencyNotReadyReason)
    /\ wk[w].pc = "done"
    /\ ~wk[w].runner
    /\ wk[w].trace \cap {"runner", "cycle", "download"} = {}
    /\ Len(wk[w].deps) <= wk[w].depIndex
    /\ \A i \in 1..(wk[w].depIndex - 1) : DependencyReady(wk[w].deps[i])

\* The attempt of w stored the failed dependency check, emitted its event and
\* returns a requeue after the retry interval without an error.
DependencyCheckPersisted(w) ==
    LET spec == Deref(wk[w].terraform).spec
    IN  /\ wk[w].result =
            Ptr(Result(FALSE,
                       IF spec.retryInterval # Nil
                       THEN Deref(spec.retryInterval) ELSE spec.interval,
                       NoError))
        /\ "event" \in wk[w].trace
        /\ wk[w].patched = 1
        /\ store[wk[w].req] # Nil
        /\ ReadyIs(Deref(store[wk[w].req]).status, ConditionFalse,
                   DependencyNotReadyReason)

\* C14: an attempt whose dependency check fails stops at the first failing
\* dependency, marks the object not ready (DependencyNotReady) and acquires
\* no runner; it stores the condition, emits an event and returns a requeue
\* after the retry interval without an error, or, when the status patch
\* failed, an immediate requeue with the patch error, nothing stored and no
\* event.  It never returns without a requeue.
C14_DependencyCheckFailure ==
    \A w \in Workers :
        "dependency not ready" \in wk[w].trace =>
            /\ DependencyCheckStops(w)
            /\ \/ DependencyCheckPersisted(w)
               \/ /\ wk[w].result =
                        Ptr(Result(TRUE, 0, "unable to update status"))
                  /\ "event" \notin wk[w].trace
                  /\ wk[w].patched = 0

\* C14 as stated: every attempt whose dependency check fails stores the
\* condition, emits the event and returns a requeue after the retry interval,
\* never an error.
C14_AsStated ==
    \A w \in Workers :
        "dependency not ready" \in wk[w].trace =>
            DependencyCheckStops(w) /\ DependencyCheckPersisted(w)

\* C14 happens: an object with two dependencies fails on the first, the
\* second is never fetched, and the failure is stored with its event.
C14_Witness ==
    \E w \in Workers :
        /\ "dependency not ready" \in wk[w].trace
        /\ Len(Deref(wk[w].terraform).spec.dependsOn) = 2
        /\ wk[w].depIndex = 1
        /\ Len(wk[w].deps) = 1
        /\ DependencyCheckPersisted(w)


\* C15: a suspended object is left alone.  An attempt that holds an object
\* with spec.suspend set goes no further than the finalizer step: it resolves
\* no source, checks no dependency, acquires no runner and patches no status,
\* the stored status stays as it was fetched, the only write is the
\* controlling finalizer, and it returns no requeue, with no error unless
\* adding the finalizer failed.
C15_SuspendedLeftAlone ==
    \A w \in Workers :
        (wk[w].terraform # Nil /\ Deref(wk[w].terraform).spec.suspend) =>
            /\ wk[w].pc \in {"finalizer", "done"}
            /\ wk[w].sourceObj = Nil
            /\ wk[w].deps = <<>> /\ wk[w].tf = Nil
            /\ ~wk[w].runner
            /\ wk[w].patched = 0
            /\ wk[w].trace \subseteq {"ca invalid at start", "rotated"}
            /\ store[wk[w].req] # Nil =>
                /\ Deref(store[wk[w].req]).status = Deref(wk[w].fetched).status
                /\ Deref(store[wk[w].req]).finalizers \subseteq
                        Deref(wk[w].fetched).finalizers \cup {TerraformFinalizer}
            /\ wk[w].pc = "done" =>
                wk[w].result \in
                    {Ptr(Result(FALSE, 0, NoError)),
                     Ptr(Result(FALSE, 0, "unable to register finalizer"))}

\* C15 as stated: every attempt on a suspended object returns no requeue and
\* no error.
C15_AsStated ==
    \A w \in Workers :
        ( /\ wk[w].terraform # Nil
          /\ Deref(wk[w].terraform).spec.suspend
          /\ wk[w].pc = "done" ) =>
            wk[w].result = Ptr(Result(FALSE, 0, NoError))

\* C15 happens: an attempt on a suspended object that names a dependency
\* added the controlling finalizer and returned without a requeue.
C15_Witness ==
    \E w \in Workers :
        /\ wk[w].terraform # Nil
        /\ Suspended(Deref(wk[w].terraform))
        /\ Deref(wk[w].terraform).spec.dependsOn # <<>>
        /\ wk[w].pc = "done"
        /\ wk[w].result = Ptr(Result(FALSE, 0, NoError))
        /\ TerraformFinalizer \notin Deref(wk[w].fetched).finalizers
        /\ TerraformFinalizer \in Deref(store[wk[w].req]).finalizers


\* C16: an attempt whose object is gone, r.Get answering not found, returns
\* no error and no requeue, and has written nothing: it holds no object,
\* patched no finalizer and no status, resolved no source, checked no
\* dependency and acquired no runner, and the object is still absent.
C16_GoneObject ==
    \A w \in Workers :
        "not found" \in wk[w].trace =>
            /\ wk[w].pc = "done"
            /\ wk[w].result = Ptr(Result(FALSE, 0, NoError))
            /\ wk[w].fetched = Nil /\ wk[w].terraform = Nil
            /\ wk[w].sourceObj = Nil
            /\ wk[w].deps = <<>> /\ wk[w].tf = Nil
            /\ ~wk[w].runner
            /\ wk[w].patched = 0
            /\ wk[w].trace \subseteq {"ca invalid at start", "rotated", "not found"}
            /\ store[wk[w].req] = Nil

\* C16 happens: an attempt was handed an object that had been removed while
\* it was queued, and returned without a requeue.
C16_Witness ==
    \E w \in Workers :
        /\ "not found" \in wk[w].trace
        /\ wk[w].pc = "done"
        /\ wk[w].result = Ptr(Result(FALSE, 0, NoError))


\* The attempt of w stored the status the cycle answered with and returns a
\* requeue after the retry interval without an error.
CycleOutcomePersisted(w) ==
    LET spec == Deref(wk[w].terraform).spec
    IN  /\ wk[w].result =
            Ptr(Result(FALSE,
                       IF spec.retryInterval # Nil
                       THEN Deref(spec.retryInterval) ELSE spec.interval,
                       NoError))
        /\ store[wk[w].req] # Nil
        /\ Deref(store[wk[w].req]).status =
                Deref(wk[w].reconciledTerraform).status

\* C17: after the cycle answered with drift or with another error, the
\* attempt either stored the resulting status and returns a requeue after the
\* retry interval without an error, with a Warning event for an error other
\* than drift and none for drift; or its status patch failed, and it returns
\* an immediate requeue with the patch error, without any event.
C17_CycleErrorOutcome ==
    \A w \in Workers :
        wk[w].trace \cap {"drift", "cycle failed"} # {} =>
            \/ /\ CycleOutcomePersisted(w)
               /\ "Warning" \in wk[w].trace <=> "cycle failed" \in wk[w].trace
            \/ /\ wk[w].result = Ptr(Result(TRUE, 0, "unable to update status"))
               /\ "event" \notin wk[w].trace

\* C17 as stated: after the cycle answered with drift or with another error
\* the resulting status is stored and the attempt returns a requeue after the
\* retry interval without an error.
C17_AsStated ==
    \A w \in Workers :
        wk[w].trace \cap {"drift", "cycle failed"} # {} =>
            /\ CycleOutcomePersisted(w)
            /\ "Warning" \in wk[w].trace <=> "cycle failed" \in wk[w].trace

\* C17 happens: a cycle failed with an error other than drift, its status
\* was stored and a Warning event emitted.
C17_Witness ==
    \E w \in Workers :
        /\ "cycle failed" \in wk[w].trace
        /\ "Warning" \in wk[w].trace
        /\ CycleOutcomePersisted(w)


\* The attempt of w ran the cycle, which answered without an error.
CycleSucceeded(w) ==
    /\ "cycle" \in wk[w].trace
    /\ wk[w].trace \cap {"drift", "cycle failed"} = {}

\* The status the cycle of w answered with has a pending plan that the
\* approval neither forces nor applies automatically.
PendingForApproval(w) ==
    LET reconciledTerraform == Deref(wk[w].reconciledTerraform)
    IN  /\ reconciledTerraform.status.plan.pending # EmptyString
        /\ ~reconciledTerraform.spec.force
        /\ reconciledTerraform.spec.approvePlan # ApprovePlanAutoValue

\* C18: after a cycle that answered without an error and whose status was
\* stored, the attempt returns no requeue when the resulting status has a
\* pending plan and the approval is neither forced nor automatic, and a
\* requeue after exactly spec.interval otherwise; when the status patch
\* failed it returns an immediate requeue with the patch error.
C18_RequeueAfterSuccess ==
    \A w \in Workers :
        CycleSucceeded(w) =>
            \/ wk[w].result = Ptr(Result(TRUE, 0, "unable to update status"))
            \/ wk[w].result =
                    Ptr(Result(FALSE,
                               IF PendingForApproval(w) THEN 0
                               ELSE Deref(wk[w].terraform).spec.interval,
                               NoError))

\* C18 as stated: after a cycle that answered without an error the attempt
\* returns no requeue for a pending plan awaiting approval, and a requeue
\* after spec.interval in every other case.
C18_AsStated ==
    \A w \in Workers :
        CycleSucceeded(w) =>
            wk[w].result =
                Ptr(Result(FALSE,
                           IF PendingForApproval(w) THEN 0
                           ELSE Deref(wk[w].terraform).spec.interval,
                           NoError))

\* C18 happens: a cycle of an object whose retry interval differs from its
\* interval left a plan pending for approval, and the attempt returns no
\* requeue.
C18_Witness ==
    \E w \in Workers :
        /\ CycleSucceeded(w)
        /\ PendingForApproval(w)
        /\ Deref(wk[w].terraform).spec.retryInterval
                # Ptr(Deref(wk[w].terraform).spec.interval)
        /\ wk[w].result = Ptr(Result(FALSE, 0, NoError))

\* The attempt of w acquired a runner and has ended.
EndedWithRunner(w) == "runner" \in wk[w].trace /\ wk[w].pc = "done"

\* C19: every attempt that acquired a runner has, when it ends, closed the
\* connection, and has polled for the deletion of the runner pod exactly when
\* the controller does not run an insecure local runner and the object does
\* not disable the cleanup; this on every exit: a failed finalize, a failed
\* status patch, a stop for manual approval, drift, a cycle error, success.
C19_RunnerCleanup ==
    \A w \in Workers :
        /\ ("runner" \in wk[w].trace /\ wk[w].result # Nil) =>
                wk[w].pc \in {"cleanup", "done"}
        /\ EndedWithRunner(w) =>
            /\ ~wk[w].runner
            /\ "closeConn" \in wk[w].trace
            /\ "poll" \in wk[w].trace <=>
                    /\ ~insecureLocalRunner
                    /\ Deref(wk[w].terraform).spec.alwaysCleanupRunnerPod
                            # Ptr(FALSE)

\* C19 happens: an attempt that stopped for a manual approval closed the
\* connection and polled for the deletion of its runner pod.
C19_Witness ==
    \E w \in Workers :
        /\ EndedWithRunner(w)
        /\ "manual stop" \in wk[w].trace
        /\ {"closeConn", "poll"} \subseteq wk[w].trace

\* C20: one status patch per attempt.  No attempt has patched the stored
\* status more than once between its start and its return.
C20_OneStatusPatchPerAttempt ==
    \A w \in Workers : wk[w].patched <= 1

\* tf_controller.go:338-399 as one function of the object the attempt holds,
\* for an object that is not being deleted and with no call failing: the
\* branch taken and the requeue directive returned when the runner answers
\* plan and apply.
decide(terraform, artifact, plan, apply, t) ==
    LET cleared ==
            IF /\ artifact.revision # terraform.status.lastAttemptedRevision
               /\ ~shouldApply(terraform)
            THEN [terraform EXCEPT !.status.plan.pending = EmptyString]
            ELSE terraform
    IN  IF waitForManualApprove(cleared)
        THEN <<"manual stop", Result(FALSE, 0, NoError)>>
        ELSE <<"cycle",
               reconcileResult(cleared,
                    setupAndReconcile(cleared, artifact, plan, apply, t).terraform,
                    setupAndReconcile(cleared, artifact, plan, apply, t).err)>>

\* tf_controller.go:236-399 as one function of the object an attempt fetched:
\* the Progressing step, then the decisions above.
directive(terraform, artifact, plan, apply, t) ==
    LET ready == FindStatusCondition(terraform.status.conditions, ReadyCondition)
    IN  decide(IF ready = Nil \/ Deref(ready).status # ConditionUnknown
               THEN TerraformProgressing(terraform,
                        <<"Reconciliation in progress">>, t)
               ELSE terraform,
               artifact, plan, apply, t)

\* The attempt of w is past its Progressing step and before its cycle (the
\* clearing of the pending plan, done or not, would not act twice), on an
\* object that is not being deleted and whose spec and source are as the
\* attempt read them.
Interruptible(w) ==
    /\ wk[w].pc \in {"runner", "pending", "reconcile"}
    /\ store[wk[w].req] # Nil
    /\ ~Deref(store[wk[w].req]).deleting
    /\ Deref(store[wk[w].req]).spec = Deref(wk[w].fetched).spec
    /\ sources[SourceKey] = wk[w].sourceObj

ManualPending(w) ==
    /\ wk[w].fetched # Nil
    /\ wk[w].sourceObj # Nil
    /\ LET fetched == Deref(wk[w].fetched)
       IN  /\ fetched.status.plan.pending # EmptyString
           /\ fetched.spec.approvePlan = EmptyString
           /\ ~fetched.spec.force
           /\ ~fetched.deleting
           /\ Deref(wk[w].sourceObj).artifact # Nil
           /\ Deref(Deref(wk[w].sourceObj).artifact).revision
                = fetched.status.lastAttemptedRevision

\* The stored status of the object of w is the one w fetched.
StatusKept(w) ==
    /\ wk[w].patched = 0
    /\ store[wk[w].req] # Nil
    /\ Deref(store[wk[w].req]).status = Deref(wk[w].fetched).status

ShortPlanId(terraform) ==
    GetPlanIdAndApproveMessage(terraform.status.lastPlannedRevision, <<>>)[3]

Reordered(terraform, p) ==
    [terraform EXCEPT
        !.status.conditions = [i \in 1..Len(@) |-> @[p[i]]]]

\* C25: in whatever order the conditions of a status are stored, HasDrift is
\* true exactly when a drift timestamp exists and some Apply condition is True
\* with a transition time strictly before it.
C25_HasDriftCharacterised ==
    LET x == Deref(store["x"])
        conditions == x.status.conditions
        at == x.status.lastDriftDetectedAt
    IN  \A p \in Permutations(1..Len(conditions)) :
            /\ HasDrift(Reordered(x, p)) <=>
                    /\ at # Nil
                    /\ \E c \in {conditions[i] : i \in 1..Len(conditions)} :
                        /\ c.type = ConditionTypeApply
                        /\ c.status = ConditionTrue
                        /\ c.lastTransitionTime < Deref(at)
            /\ at = Nil => ~HasDrift(Reordered(x, p))

\* C25 happens: a status has drift, its Apply condition stored after two
\* others ...
C25_Witness ==
    LET x == Deref(store["x"])
    IN  /\ HasDrift(x)
        /\ Len(x.status.conditions) >= 3
        /\ x.status.conditions[3].type = ConditionTypeApply

\* terraform is marked as being applied, or as having failed to apply.
ApplyStartedOrFailed(terraform, t) ==
    UNION {{TerraformApplying(terraform, revision, <<"m">>, t),
            TerraformAppliedFailResetPlanAndNotReady(terraform, revision,
                TFExecApplyFailedReason, <<"m">>, t)} :
           revision \in {Rev1, Rev2}}

\* C26: neither the start of an apply nor its failure is a drift detection or
\* a successful apply, so an object counts as drifted after such a transition
\* exactly when it did before, and the next plan is tagged accordingly.
C26_DriftedUntilApplied ==
    [][LET x == Deref(store["x"])
           y == Deref(store["x"])'
       IN  (steps' = steps + 1 /\ y \in ApplyStartedOrFailed(x, now)) =>
                /\ HasDrift(y) = HasDrift(x)
                /\ TerraformPlannedWithChanges(y, Rev1, FALSE, <<"m">>, now)
                        .status.plan.isDriftDetectionPlan = HasDrift(x)]_vars

ConditionTypes ==
    {ReadyCondition, ConditionTypePlan, ConditionTypeApply, ConditionTypeOutput}

\* No two of the conditions have the same type.
OnePerType(conditions) ==
    \A i, j \in 1..Len(conditions) :
        conditions[i].type = conditions[j].type => i = j

\* C27: a transition leaves at most one condition per type, stamps a
\* condition it adds with the time of the call, and for a condition that
\* existed keeps lastTransitionTime when the status is the same and sets it
\* to the time of the call when the status differs.
C27_TransitionTimeFollowsStatus ==
    [][steps' = steps + 1 =>
        LET before == Deref(store["x"]).status.conditions
            after == Deref(store["x"])'.status.conditions
        IN  /\ OnePerType(after)
            /\ \A type \in ConditionTypes :
                LET old == FindStatusCondition(before, type)
                    new == FindStatusCondition(after, type)
                IN  /\ old # Nil => new # Nil
                    /\ (old # Nil /\ Deref(old).status = Deref(new).status) =>
                         Deref(new).lastTransitionTime
                            = Deref(old).lastTransitionTime
                    /\ (old # Nil /\ Deref(old).status # Deref(new).status) =>
                         Deref(new).lastTransitionTime = now
                    /\ (old = Nil /\ new # Nil) =>
                         Deref(new).lastTransitionTime = now]_vars

\* C27 as stated: a condition that existed keeps lastTransitionTime when the
\* transition sets the same status, reason and message, and gets the time of
\* the call when any of the three differs.
C27_AsStated ==
    [][steps' = steps + 1 =>
        LET before == Deref(store["x"]).status.conditions
            after == Deref(store["x"])'.status.conditions
        IN  /\ OnePerType(after)
            /\ \A type \in ConditionTypes :
                LET old == FindStatusCondition(before, type)
                    new == FindStatusCondition(after, type)
                IN  (old # Nil /\ new # Nil) =>
                        Deref(new).lastTransitionTime =
                            IF /\ Deref(old).status = Deref(new).status
                               /\ Deref(old).reason = Deref(new).reason
                               /\ Deref(old).message = Deref(new).message
                            THEN Deref(old).lastTransitionTime
                            ELSE now]_vars

\* C27 happens: a plan with changes was recorded at time 1 on a status whose
\* Ready condition was Unknown since time 0; Ready has the reason of the plan
\* and still the transition time 0.
C27_Witness ==
    LET conditions == Deref(store["x"]).status.conditions
        ready == FindStatusCondition(conditions, ReadyCondition)
        plan == FindStatusCondition(conditions, ConditionTypePlan)
    IN  /\ ready # Nil
        /\ plan # Nil
        /\ Deref(plan).lastTransitionTime = 1
        /\ Deref(plan).status = ConditionTrue
        /\ Deref(ready).status = ConditionUnknown
        /\ Deref(ready).reason = "TerraformPlannedWithChanges"
        /\ Deref(ready).lastTransitionTime = 0

\* The position of the first slash of a revision, 0 if it has none.
FirstSlash(revision) ==
    LET slashes == {i \in 1..Len(revision) : revision[i] = "/"}
    IN  IF slashes = {} THEN 0
        ELSE CHOOSE i \in slashes : \A j \in slashes : i <= j

\* "plan-" and the revision with its first slash as a dash.
ExpectedPlanId(revision) ==
    <<"p", "l", "a", "n", "-">> \o
        [i \in 1..Len(revision) |->
            IF i = FirstSlash(revision) THEN "-" ELSE revision[i]]

\* "plan-<before the slash>-<first 10 characters after it>", or the plan id
\* when there is no slash or fewer than 10 characters follow it.
ExpectedShortId(revision) ==
    LET at == FirstSlash(revision)
    IN  IF at = 0 \/ Len(revision) - at < 10
        THEN ExpectedPlanId(revision)
        ELSE <<"p", "l", "a", "n", "-">> \o SubSeq(revision, 1, at - 1)
                \o <<"-">> \o SubSeq(revision, at + 1, at + 10)

\* C28: a plan with changes recorded in manual mode for any revision stores
\* the plan id "plan-" + revision with the slash as a dash, and a Ready
\* message made of the message passed and the short plan id.
C28_PlanIdAndApproveMessage ==
    [][\A revision \in CallRevisions :
        store["x"]' = Ptr(TerraformPlannedWithChanges(Deref(store["x"]),
                            revision, FALSE, <<"m">>, now)) =>
            LET y == Deref(store["x"])'
                pm == GetPlanIdAndApproveMessage(revision, <<"m">>)
            IN  /\ pm[1] = ExpectedPlanId(revision)
                /\ pm[2] = <<"m", ": set approvePlan: \"">>
                            \o ExpectedShortId(revision)
                            \o <<"\" to approve this plan.">>
                /\ y.status.plan.pending = ExpectedPlanId(revision)
                /\ Deref(FindStatusCondition(y.status.conditions,
                        ReadyCondition)).message = pm[2]]_vars

\* C28 happens: the plan of a revision with two slashes is pending, the Ready
\* message asking for approval.
C28_Witness ==
    LET x == Deref(store["x"])
        ready == FindStatusCondition(x.status.conditions, ReadyCondition)
    IN  /\ steps = 1
        /\ Len(x.status.lastPlannedRevision) = 14
        /\ x.status.plan.pending # EmptyString
        /\ ready # Nil
        /\ Len(Deref(ready).message) > 3

\* C29: no condition holds a message of more than MaxConditionMessageLength
\* characters, whatever message and revision the transition was called with.
C29_MessagesWithinLimit ==
    \A i \in 1..Len(Deref(store["x"]).status.conditions) :
        Len(Deref(store["x"]).status.conditions[i].message)
            <= MaxConditionMessageLength

C31_CleanupTerminates ==
    /\ <>(wk[1].pc = "done")
    /\ [][wk[1].result' = wk[1].result]_vars
    /\ [](/\ pod.elapsed <= timeout
          /\ pod.elapsed % interval = 0
          /\ pod.calls <= timeout \div interval + 1)
    /\ [][pod.calls' = pod.calls + 1 =>
            /\ pod.got' = "ok" =>
                    /\ pod.deletes' = pod.deletes + 1
                    /\ wk[1].pc' = "done" =>
                            pod.err' = "timed out waiting for the condition"
            /\ pod.got' = "not found" =>
                    /\ pod.deletes' = pod.deletes
                    /\ wk[1].pc' = "done"
                    /\ pod.err' = NoError]_vars

\* C31 happens: the poll timed out after a delete on each of its calls, and
\* the attempt returns the error it had.
C31_Witness ==
    /\ wk[1].pc = "done"
    /\ pod.err = "timed out waiting for the condition"
    /\ pod.deletes = timeout \div interval + 1
    /\ wk[1].result = Ptr(Result(TRUE, 0, "unable to update status"))

\* The attempt of w, at line 338, holds an object whose last attempted
\* revision is not the one of the artifact and whose approval does not call
\* for applying.
NewRevisionWithoutApproval(w) ==
    LET terraform == Deref(wk[w].terraform)
    IN  /\ Deref(Deref(wk[w].sourceObj).artifact).revision
                # terraform.status.lastAttemptedRevision
        /\ ~shouldApply(terraform)

\* The step of w at lines 338-348 emptied the pending plan in the object it
\* holds and in the store, and goes on.
PendingPlanCleared(w) ==
    /\ wk[w].pc' = "reconcile"
    /\ Deref(wk[w].terraform)'.status =
            [Deref(wk[w].terraform).status EXCEPT !.plan.pending = EmptyString]
    /\ store[wk[w].req]' # Nil
    /\ Deref(store[wk[w].req])'.status = Deref(wk[w].terraform)'.status
    /\ ~waitForManualApprove(Deref(wk[w].terraform)')

\* C32: at lines 338-348, a new revision without approval to apply has the
\* pending plan emptied and persisted, after which the attempt runs the
\* cycle, unless the status patch fails, in which case the attempt returns
\* Requeue with the error; with the revision last attempted, the object held
\* and the store are left as they are.
C32_ReplanOnNewRevision ==
    [][\A w \in Workers :
        /\ (wk[w].pc = "pending" /\ wk[w].pc' # "pending") =>
                IF NewRevisionWithoutApproval(w)
                THEN \/ PendingPlanCleared(w)
                     \/ /\ wk[w].result' =
                            Ptr(Result(TRUE, 0, "unable to update status"))
                        /\ store' = store
                ELSE /\ wk[w].pc' = "reconcile"
                     /\ wk[w].terraform' = wk[w].terraform
                     /\ store' = store
        /\ ( /\ wk[w].pc = "reconcile" /\ wk[w].pc' # "reconcile"
             /\ Deref(wk[w].terraform).status.plan.pending = EmptyString ) =>
                "cycle" \in wk[w].trace']_vars

\* C32 as stated: a new revision without approval to apply always has the
\* pending plan emptied and persisted, and the attempt goes on.
C32_AsStated ==
    [][\A w \in Workers :
        ( /\ wk[w].pc = "pending" /\ wk[w].pc' # "pending"
          /\ NewRevisionWithoutApproval(w) ) => PendingPlanCleared(w)]_vars

\* C32 happens: an attempt that fetched a plan pending in manual mode at
\* another revision than the artifact's has run the cycle.
C32_Witness ==
    \E w \in Workers :
        /\ wk[w].pc = "done"
        /\ "cycle" \in wk[w].trace
        /\ wk[w].patched >= 2
        /\ LET fetched == Deref(wk[w].fetched)
           IN  /\ fetched.status.plan.pending # EmptyString
               /\ fetched.spec.approvePlan = EmptyString
               /\ ~fetched.spec.force
               /\ fetched.status.lastAttemptedRevision
                    # Deref(Deref(wk[w].sourceObj).artifact).revision

\* C33: an attempt whose finalize failed returns the result and error of
\* finalize; it neither clears a pending plan nor stops for approval nor runs
\* the cycle nor patches the status again, and its cleanup runs.
C33_FinalizeFailureReturns ==
    \A w \in Workers :
        "finalize failed" \in wk[w].trace =>
            /\ wk[w].pc \in {"cleanup", "done"}
            /\ wk[w].result = Ptr(Result(TRUE, 0, "finalize failed"))
            /\ wk[w].trace \cap {"cycle", "manual stop"} = {}
            /\ wk[w].patched <= 1
            /\ Deref(wk[w].terraform).status.plan
                    = Deref(wk[w].fetched).status.plan
            /\ store[wk[w].req] # Nil =>
                    Deref(store[wk[w].req]).status =
                        IF wk[w].patched = 1
                        THEN Deref(wk[w].terraform).status
                        ELSE Deref(wk[w].fetched).status
            /\ wk[w].pc = "done" =>
                    "closeConn" \in wk[w].trace /\ ~wk[w].runner

\* C33 happens: an attempt on an object under deletion ended after its
\* finalize failed and its cleanup ran.
C33_Witness ==
    \E w \in Workers :
        /\ "finalize failed" \in wk[w].trace
        /\ wk[w].pc = "done"
        /\ "closeConn" \in wk[w].trace
        /\ Deref(wk[w].fetched).deleting

\* C34: a call of TerraformApplied moves the pending plan id to lastApplied,
\* empties pending, records isDestroyApply, sets the Apply condition True,
\* replaces the inventory by a non-empty list of entries and keeps it
\* otherwise, stamps lastAppliedByDriftDetectionAt exactly when the plan was
\* tagged as a drift detection plan, and clears the tag.
C34_Applied ==
    [][\A isDestroyApply \in BOOLEAN, entries \in ApplyEntries :
        LET x == Deref(store["x"])
            y == Deref(store["x"])'
            apply == FindStatusCondition(y.status.conditions, ConditionTypeApply)
        IN  ( /\ steps' = steps + 1
              /\ y = TerraformApplied(x, Rev1, <<"m">>, isDestroyApply,
                                      entries, now) ) =>
                /\ y.status.plan.lastApplied = x.status.plan.pending
                /\ y.status.plan.pending = EmptyString
                /\ y.status.plan.isDestroyPlan = isDestroyApply
                /\ ~y.status.plan.isDriftDetectionPlan
                /\ apply # Nil /\ Deref(apply).status = ConditionTrue
                /\ y.status.inventory =
                        IF entries # <<>> THEN entries ELSE x.status.inventory
                /\ y.status.lastAppliedByDriftDetectionAt =
                        IF x.status.plan.isDriftDetectionPlan THEN Ptr(now)
                        ELSE x.status.lastAppliedByDriftDetectionAt]_vars

\* C34 happens: a destroy apply without entries, of a plan tagged as a drift
\* detection plan, kept the inventory of the apply before it and stamped the
\* correction.
C34_Witness ==
    LET x == Deref(store["x"])
    IN  /\ steps = MaxApplySteps
        /\ x.status.lastAppliedByDriftDetectionAt = Ptr(1)
        /\ x.status.inventory = <<"r1">>
        /\ x.status.plan.isDestroyPlan
        /\ x.status.plan.lastApplied = PlanId(Rev1)
        /\ x.status.plan.pending = EmptyString

\* The step of worker w in which the apply of the cycle failed.
ApplyFails(w) ==
    /\ wk[w].pc = "reconcile"
    /\ wk[w].pc' # "reconcile"
    /\ wk[w].reconciledTerraform' # Nil
    /\ ReadyIs(Deref(wk[w].reconciledTerraform').status, ConditionFalse,
               TFExecApplyFailedReason)

\* What the failed apply of worker w left in the object it answered.
ApplyFailureRecorded(w) ==
    LET terraform == Deref(wk[w].terraform)
        reconciled == Deref(wk[w].reconciledTerraform')
        apply == FindStatusCondition(reconciled.status.conditions,
                                     ConditionTypeApply)
    IN  /\ reconciled.status.plan.pending = EmptyString
        /\ apply # Nil /\ Deref(apply).status = ConditionFalse
        /\ reconciled.status.plan.lastApplied = terraform.status.plan.lastApplied
        /\ reconciled.status.lastAppliedRevision
                = terraform.status.lastAppliedRevision

\* The failed apply of worker w is persisted and retried at the retry
\* interval.
ApplyFailurePersisted(w) ==
    /\ store[wk[w].req]' # Nil
    /\ Deref(store[wk[w].req]').status
            = Deref(wk[w].reconciledTerraform').status
    /\ wk[w].result' =
            Ptr(Result(FALSE, GetRetryInterval(Deref(wk[w].terraform)), NoError))

\* Worker w attempts an object whose stored status is that of a failed apply.
AfterApplyFailure(w) ==
    /\ wk[w].fetched # Nil
    /\ ReadyIs(Deref(wk[w].fetched).status, ConditionFalse,
               TFExecApplyFailedReason)

\* C35: a failed apply leaves no plan pending, Apply False and Ready False
\* with the reason of the failure, and the last applied plan and revision as
\* they were; its status is persisted and the attempt requeues after the retry
\* interval, unless the status patch fails, which is answered with a requeue
\* and the patch error, the store being unchanged.  An attempt that fetches
\* the status of a failed apply finds no plan pending, does not stop for an
\* approval, and calls the cycle, if it gets there, with no plan pending, so
\* that the cycle plans.
C35_ApplyFailureReplans ==
    /\ [][\A w \in Workers :
            ApplyFails(w) =>
                /\ ApplyFailureRecorded(w)
                /\ \/ ApplyFailurePersisted(w)
                   \/ /\ wk[w].result' =
                            Ptr(Result(TRUE, 0, "unable to update status"))
                      /\ store' = store]_vars
    /\ [](\A w \in Workers :
            AfterApplyFailure(w) =>
                /\ Deref(wk[w].fetched).status.plan.pending = EmptyString
                /\ "manual stop" \notin wk[w].trace
                /\ "cycle" \in wk[w].trace =>
                        Deref(wk[w].invoked).status.plan.pending = EmptyString)

\* C35 as stated: every failed apply is persisted with no plan pending and
\* retried at the retry interval.
C35_AsStated ==
    [][\A w \in Workers :
        ApplyFails(w) => ApplyFailureRecorded(w) /\ ApplyFailurePersisted(w)]_vars

\* C35 happens: an attempt that fetched the status of a failed apply, with a
\* plan applied before it, has run the cycle.
C35_Witness ==
    \E w \in Workers :
        /\ AfterApplyFailure(w)
        /\ wk[w].pc = "done"
        /\ "cycle" \in wk[w].trace
        /\ Deref(wk[w].fetched).status.plan.lastApplied # EmptyString

\* The last id of ids that is not empty, and otherwise, none.
RECURSIVE LastHeld(_)
LastHeld(ids) ==
    IF ids = <<>> THEN EmptyString
    ELSE IF ids[Len(ids)] # EmptyString THEN ids[Len(ids)]
    ELSE LastHeld(SubSeq(ids, 1, Len(ids) - 1))

\* C36: after any sequence of TerraformStateLocked and TerraformForceUnlock
\* calls the pending lock id is the id of the last call if that was a
\* TerraformStateLocked and empty if it was a TerraformForceUnlock, and the
\* last applied lock id is the last non-empty id that was pending before the
\* last call.
C36_LockHistory ==
    /\ [](Deref(store["x"]).status.lock.lastApplied = LastHeld(locks))
    /\ [][steps' = steps + 1 =>
            LET locked == FindStatusCondition(
                            Deref(store["x"])'.status.conditions,
                            ConditionTypeStateLocked)
                pending == Deref(store["x"])'.status.lock.pending
            IN  /\ locked # Nil
                /\ Deref(locked).reason = TFExecForceUnlockReason =>
                        pending = EmptyString
                /\ Deref(locked).reason = TFExecLockHeldReason =>
                        \E lockID \in LockIds :
                            /\ pending = lockID
                            /\ Deref(store["x"])' =
                                    TerraformStateLocked(Deref(store["x"]),
                                        lockID, <<"m">>, now)]_vars

\* C36 happens: a lock was released by force, a second lock was reported, and
\* after a call that found no lock pending the second lock is the last applied.
C36_Witness ==
    /\ locks = <<EmptyString, <<"l", "1">>, <<"l", "2">>, EmptyString>>
    /\ Deref(store["x"]).status.lock.lastApplied = <<"l", "2">>
    /\ Deref(store["x"]).status.lock.pending = <<"l", "1">>

\* The step of worker w that recorded a not-ready outcome without a revision
\* (source not found, artifact missing, deletion blocked) and persisted it.
NotReadyWithoutRevision(w) ==
    /\ (wk[w].trace' \ wk[w].trace)
            \cap {"source not ready", "deletion blocked"} # {}
    /\ wk[w].patched' = wk[w].patched + 1

\* Worker w, at lines 338-348, holds a plan pending in manual mode and no
\* revision last attempted.
PendingWithoutRevision(w) ==
    LET terraform == Deref(wk[w].terraform)
    IN  /\ terraform.status.plan.pending # EmptyString
        /\ terraform.status.lastAttemptedRevision = EmptyString
        /\ ~shouldApply(terraform)

\* C37: a not-ready outcome recorded without a revision, and a report of the
\* state lock, store an empty revision last attempted and leave the pending
\* plan; an attempt that then reaches lines 338-348 with the plan pending and
\* not approved empties and persists it and goes on to the cycle, which is
\* called with no plan pending, unless the status patch fails, in which case
\* the attempt returns Requeue with the error and the store is unchanged.
C37_PendingPlanLostAfterNotReady ==
    /\ [][\A w \in Workers :
            NotReadyWithoutRevision(w) =>
                /\ store[wk[w].req]' # Nil
                /\ Deref(store[wk[w].req])'.status.lastAttemptedRevision
                        = EmptyString
                /\ Deref(store[wk[w].req])'.status.plan
                        = Deref(wk[w].fetched).status.plan]_vars
    /\ \A lockID \in LockIds :
        LET terraform == Reconciled(Deref(Single(EmptyString)["x"]), Rev1)
            locked == TerraformStateLocked(terraform, lockID, <<"m">>, 0)
        IN  /\ locked.status.lastAttemptedRevision = EmptyString
            /\ locked.status.plan = terraform.status.plan
    /\ [][\A w \in Workers :
            ( /\ wk[w].pc = "pending" /\ wk[w].pc' # "pending"
              /\ PendingWithoutRevision(w) ) =>
                \/ PendingPlanCleared(w)
                \/ /\ wk[w].result' =
                        Ptr(Result(TRUE, 0, "unable to update status"))
                   /\ store' = store]_vars
    /\ [](\A w \in Workers :
            ( /\ wk[w].fetched # Nil
              /\ Deref(wk[w].fetched).status.lastAttemptedRevision = EmptyString
              /\ ~shouldApply(Deref(wk[w].fetched))
              /\ "cycle" \in wk[w].trace ) =>
                /\ "manual stop" \notin wk[w].trace
                /\ Deref(wk[w].invoked).status.plan.pending = EmptyString)

\* C37 as stated: every attempt that reaches lines 338-348 with a plan pending
\* in manual mode and no revision last attempted clears the plan and goes on.
C37_AsStated ==
    [][\A w \in Workers :
        ( /\ wk[w].pc = "pending" /\ wk[w].pc' # "pending"
          /\ PendingWithoutRevision(w) ) =>
            /\ PendingPlanCleared(w)
            /\ Deref(store[wk[w].req])'.status.plan.pending = EmptyString]_vars

\* C37 happens: an attempt fetched a plan pending in manual mode at the
\* revision of the artifact, with no revision last attempted after the
\* artifact had been missing, and has run the cycle.
C37_Witness ==
    \E w \in Workers :
        /\ wk[w].pc = "done"
        /\ "cycle" \in wk[w].trace
        /\ LET fetched == Deref(wk[w].fetched)
           IN  /\ fetched.status.plan.pending
                    = PlanId(Deref(Deref(wk[w].sourceObj).artifact).revision)
               /\ fetched.status.lastAttemptedRevision = EmptyString
               /\ fetched.status.lastPlannedRevision
                    = Deref(Deref(wk[w].sourceObj).artifact).revision
               /\ ReadyIs(fetched.status, ConditionFalse, ArtifactFailedReason)
               /\ fetched.spec.approvePlan = EmptyString

\* The object as worker w fetched it is suspended and under deletion.
SuspendedUnderDeletion(w) ==
    /\ wk[w].fetched # Nil
    /\ Suspended(Deref(wk[w].fetched))
    /\ isBeingDeleted(Deref(wk[w].fetched))

\* C38: an attempt on an object that is suspended and under deletion stops
\* no later than the suspend check: after the wait for the certificate and
\* the fetch it examines no deletion, writes no status,
\* resolves no source, acquires no runner and runs neither finalize nor the
\* cycle, and returns an empty result, or the error of the finalizer patch;
\* the status and the controlling finalizer of a stored object that is
\* suspended and under deletion stay as they are.
C38_SuspendedBeforeDeletion ==
    /\ [](\A w \in Workers :
            SuspendedUnderDeletion(w) =>
                /\ wk[w].pc \in {"finalizer", "done"}
                /\ wk[w].trace \subseteq {"ca invalid at start", "rotated"}
                /\ wk[w].patched = 0
                /\ wk[w].pc = "done" =>
                        Deref(wk[w].result) \in
                            {Result(FALSE, 0, NoError),
                             Result(FALSE, 0, "unable to register finalizer")})
    /\ [][\A o \in Objs :
            ( /\ store[o] # Nil
              /\ Suspended(Deref(store[o]))
              /\ isBeingDeleted(Deref(store[o])) ) =>
                /\ store[o]' # Nil
                /\ Deref(store[o])'.status = Deref(store[o]).status
                /\ TerraformFinalizer \in Deref(store[o]).finalizers =>
                        TerraformFinalizer \in Deref(store[o])'.finalizers]_vars

\* C38 happens: an attempt on an object that is suspended, under deletion and
\* held by the controlling finalizer has returned at the suspend check.
C38_Witness ==
    \E w \in Workers :
        /\ SuspendedUnderDeletion(w)
        /\ wk[w].pc = "done"
        /\ TerraformFinalizer \in Deref(wk[w].fetched).finalizers
        /\ Deref(wk[w].result) = Result(FALSE, 0, NoError)
        /\ store[wk[w].req] = wk[w].fetched

\* The finalize of worker w returned without an error.
Finalized(w) ==
    /\ "finalize" \in wk[w].trace
    /\ "finalize failed" \notin wk[w].trace

\* C39: a finalize that returns no error does not end the attempt: the
\* attempt goes on to lines 338-348 without a result, and the result it ends
\* with is that of the failed patch of the pending-plan clearing, of the stop
\* for a manual approval, or of the cycle, its patch and lines 366-399.
C39_FinalizeFallsThrough ==
    /\ [][\A w \in Workers :
            ( /\ wk[w].pc = "finalize" /\ wk[w].pc' # "finalize"
              /\ "finalize failed" \notin wk[w].trace' ) =>
                /\ wk[w].pc' = "pending"
                /\ wk[w].result' = Nil]_vars
    /\ [](\A w \in Workers :
            (Finalized(w) /\ wk[w].pc \in {"cleanup", "done"}) =>
                LET result == Deref(wk[w].result)
                IN  \/ /\ "manual stop" \in wk[w].trace
                       /\ "cycle" \notin wk[w].trace
                       /\ result = Result(FALSE, 0, NoError)
                    \/ /\ "cycle" \in wk[w].trace
                       /\ result \in
                            {Result(TRUE, 0, "unable to update status"),
                             Result(FALSE,
                                    GetRetryInterval(Deref(wk[w].invoked)),
                                    NoError),
                             Result(FALSE, 0, NoError),
                             Result(FALSE, Deref(wk[w].invoked).spec.interval,
                                    NoError)}
                    \/ /\ wk[w].trace \cap {"manual stop", "cycle"} = {}
                       /\ result = Result(TRUE, 0, "unable to update status")
                       /\ NewRevisionWithoutApproval(w))

\* C39 happens: an attempt on an object under deletion whose finalize
\* returned no error has run the cycle and ended with the error of the status
\* patch after it, the object being gone.
C39_Witness ==
    \E w \in Workers :
        /\ Finalized(w)
        /\ wk[w].pc = "done"
        /\ "cycle" \in wk[w].trace
        /\ isBeingDeleted(Deref(wk[w].fetched))
        /\ store[wk[w].req] = Nil
        /\ Deref(wk[w].result) = Result(TRUE, 0, "unable to update status")

\* The objects affected that depend on no affected object and on which no
\* affected object depends.
Unrelated(affected) ==
    {o \in affected :
        \A a \in affected : ~DependsOn(store, affected, o, a)
                                /\ ~DependsOn(store, affected, a, o)}

\* C40: a change of the source to an artifact whose affected objects contain
\* two that depend on each other, or whose list fails, is mapped to no request
\* and queues nothing, whatever other objects are affected.
C40_NoRequestOnCycle ==
    [][sources' # sources =>
        LET mapped == Deref(watch')
            obj == Deref(mapped.obj)
        IN  ( /\ obj.artifact # Nil
              /\ \/ mapped.listErr
                 \/ Circularity(Affected(SourceKey,
                                         Deref(obj.artifact).revision)) ) =>
                /\ mapped.requests = <<>>
                /\ queue' = queue]_vars

\* C40 happens: the list succeeded, two affected objects depend on each
\* other, a third affected object has nothing to do with them, and nothing
\* was queued.
C40_Witness ==
    /\ watch # Nil
    /\ ~Deref(watch).listErr
    /\ Deref(Deref(watch).obj).artifact # Nil
    /\ LET affected == Affected(SourceKey,
                            Deref(Deref(Deref(watch).obj).artifact).revision)
       IN  /\ Circularity(affected)
           /\ Unrelated(affected) # {}
    /\ Deref(watch).requests = <<>>
    /\ queue.items = <<>>

=============================================================================
